---------------------------- MODULE Spec2Model ----------------------------
(***************************************************************************)
(* Model of the JAI block editor: the pattern matcher (TextProcessor),     *)
(* the mutation engine (DSLProcessor), the batch orchestrator              *)
(* (BlockEditor.applyToFilesUri) with the buffer store of fileHelpers.ts,  *)
(* the in-memory apply (BlockEditor.apply) and the command parser          *)
(* (DSLParser.parse).                                                      *)
(*                                                                         *)
(* Text is a sequence of one-character strings.  Offsets are 0-based as    *)
(* in the source; line numbers are 1-based.                                *)
(***************************************************************************)
EXTENDS Integers, Sequences, FiniteSets, TLC

NL == "\n"
CR == "\r"

\* ----------------------------------------------------------------- bounds
\* longest buffer handed to the engine in the engine specification
MaxBuf == 4

\* characters of the engine's (LF-normalised) buffers
EngChars == {"A", "B", NL}

\* ------------------------------------------------------- string primitives
Min(S) == CHOOSE x \in S : \A y \in S : x <= y

Max(S) == CHOOSE x \in S : \A y \in S : x >= y

RECURSIVE StringsUpTo(_, _)
\* all texts over alphabet cs of length <= n
StringsUpTo(cs, n) ==
  IF n = 0 THEN {<<>>}
  ELSE LET shorter == StringsUpTo(cs, n - 1)
       IN  shorter \cup {Append(s, c) : s \in {t \in shorter : Len(t) = n - 1}, c \in cs}

\* String.prototype.substring(from, to) for 0 <= from, half-open, clamped
Substring(text, from, to) ==
  LET t == IF to > Len(text) THEN Len(text) ELSE to
  IN  IF from >= t THEN <<>> ELSE SubSeq(text, from + 1, t)

\* String.prototype.indexOf(pat, from): least 0-based offset >= from at which
\* pat occurs, -1 when there is none; the empty pattern occurs at min(from, len)
IndexOf(text, pat, from) ==
  LET hits == {i \in from..(Len(text) - Len(pat)) :
                 Substring(text, i, i + Len(pat)) = pat}
  IN  IF pat = <<>> THEN (IF from > Len(text) THEN Len(text) ELSE from)
      ELSE IF hits = {} THEN -1 ELSE Min(hits)

RECURSIVE SplitFrom(_, _, _)
SplitFrom(text, i, cur) ==
  IF i > Len(text) THEN <<cur>>
  ELSE IF text[i] = NL THEN <<cur>> \o SplitFrom(text, i + 1, <<>>)
  ELSE SplitFrom(text, i + 1, Append(cur, text[i]))

\* String.prototype.split('\n')
Split(text) == SplitFrom(text, 1, <<>>)

RECURSIVE Join(_)
\* Array.prototype.join('\n')
Join(lines) ==
  IF lines = <<>> THEN <<>>
  ELSE IF Len(lines) = 1 THEN lines[1]
  ELSE lines[1] \o <<NL>> \o Join(Tail(lines))

\* Array.prototype.slice(from, to) on a line array, clamped
Slice(lines, from, to) ==
  LET t == IF to > Len(lines) THEN Len(lines) ELSE to
  IN  IF from >= t THEN <<>> ELSE SubSeq(lines, from + 1, t)

\* Array.prototype.splice(start, deleteCount, ...items) (result array)
Splice(lines, start, deleteCount, items) ==
  LET s == IF start > Len(lines) THEN Len(lines) ELSE start
      d == IF s + deleteCount > Len(lines) THEN Len(lines) - s ELSE deleteCount
  IN  Slice(lines, 0, s) \o items \o Slice(lines, s + d, Len(lines))

RECURSIVE NormalizeFrom(_, _)
NormalizeFrom(text, i) ==
  IF i > Len(text) THEN <<>>
  ELSE IF text[i] = CR
       THEN IF i < Len(text) /\ text[i + 1] = NL
            THEN <<NL>> \o NormalizeFrom(text, i + 2)
            ELSE <<NL>> \o NormalizeFrom(text, i + 1)
       ELSE <<text[i]>> \o NormalizeFrom(text, i + 1)

\* TextProcessor.normalizeEOL: text.replace(/\r\n?/g, '\n')
normalizeEOL(text) == NormalizeFrom(text, 1)

\* ---------------------------------------------------------- pattern matcher
\* TextProcessor.buildLineOffsets: 0-based offsets at which lines start
buildLineOffsets(text) ==
  LET starts == {0} \cup {i \in 1..Len(text) : text[i] = NL}
      n == Cardinality(starts)
  IN  [k \in 1..n |-> CHOOSE s \in starts : Cardinality({x \in starts : x < s}) = k - 1]

RECURSIVE IndexToLineLoop(_, _, _, _)
\* the binary search of indexToLine; lo, hi are 0-based indices into lineOffsets
IndexToLineLoop(index, lineOffsets, lo, hi) ==
  IF lo > hi THEN hi + 1
  ELSE LET mid == (lo + hi) \div 2
       IN  IF lineOffsets[mid + 1] <= index
           THEN IndexToLineLoop(index, lineOffsets, mid + 1, hi)
           ELSE IndexToLineLoop(index, lineOffsets, lo, mid - 1)

\* TextProcessor.indexToLine: 1-based line of a 0-based offset
indexToLine(index, lineOffsets) ==
  IndexToLineLoop(index, lineOffsets, 0, Len(lineOffsets) - 1)

\* the line scan of findAllBlocksExact: <<startLine, endLine>> of a match at index
ExactLineNumbers(content, searchContent, index) ==
  LET lines == Split(content)
      pos(i) == IF i = 1 THEN 0
                ELSE Len(Join(SubSeq(lines, 1, i - 1))) + 1
      hits == {i \in 1..Len(lines) : pos(i) <= index /\ index < pos(i) + Len(lines[i]) + 1}
  IN  IF hits = {} THEN <<1, 1>>
      ELSE LET startLine == Min(hits)
           IN  <<startLine, startLine + Len(Split(searchContent)) - 1>>

\* (mutant) the search resumes one character after the match began
ExactResumeOverlapping(index, searchContent) == index + 1

\* findAllBlocksExact line 74: where the search resumes after a match at index
ExactResume(index, searchContent) == index + Len(searchContent)

RECURSIVE ExactLoop(_, _, _)
ExactLoop(content, searchContent, from) ==
  LET index == IndexOf(content, searchContent, from)
  IN  IF index = -1 THEN <<>>
      ELSE LET ln == ExactLineNumbers(content, searchContent, index)
           IN  <<[startLine |-> ln[1], endLine |-> ln[2],
                  startPos |-> index, endPos |-> index + Len(searchContent) - 1]>>
               \o ExactLoop(content, searchContent, ExactResume(index, searchContent))

\* findAllBlocksExact never leaves its while loop when the search text is
\* empty: indexOf('', i) is never -1 and the cursor advances by 0
ExactDiverges(block) == block.blockType = "exact" /\ block.content = <<>>

\* TextProcessor.findAllBlocksExact (for a non-empty search text)
findAllBlocksExact(content, block) == ExactLoop(content, block.content, 0)

\* (mutant) greedy: the last end pattern after the start closes it
BoundaryEndIdxGreedy(text, startPat, endPat, startIdx) ==
  LET hits == {i \in (startIdx + Len(startPat))..(Len(text) - Len(endPat)) :
                 Substring(text, i, i + Len(endPat)) = endPat}
  IN  IF hits = {} THEN -1 ELSE Max(hits)

\* findAllBlocksBoundary line 104: the end pattern that closes a start at startIdx
BoundaryEndIdx(text, startPat, endPat, startIdx) ==
  IndexOf(text, endPat, startIdx + Len(startPat))

\* findAllBlocksBoundary line 126: where scanning resumes after a recorded span
BoundaryResume(endIdx, endPat) == endIdx + Len(endPat)

RECURSIVE BoundaryLoop(_, _, _, _, _)
BoundaryLoop(text, startPat, endPat, lineOffsets, cursor) ==
  IF cursor >= Len(text) THEN <<>>
  ELSE LET startIdx == IndexOf(text, startPat, cursor)
       IN  IF startIdx = -1 THEN <<>>
           ELSE LET endIdx == BoundaryEndIdx(text, startPat, endPat, startIdx)
                IN  IF endIdx = -1 THEN <<>>
                    ELSE <<[startLine |-> indexToLine(startIdx, lineOffsets),
                            endLine |-> indexToLine(endIdx + Len(endPat) - 1, lineOffsets),
                            startPos |-> startIdx,
                            endPos |-> endIdx + Len(endPat) - 1]>>
                         \o BoundaryLoop(text, startPat, endPat, lineOffsets,
                                         BoundaryResume(endIdx, endPat))

\* TextProcessor.findAllBlocksBoundary
findAllBlocksBoundary(content, block) ==
  IF block.startPattern = <<>> \/ block.endPattern = <<>> THEN <<>>
  ELSE LET text == normalizeEOL(content)
           startPat == normalizeEOL(block.startPattern)
           endPat == normalizeEOL(block.endPattern)
       IN  IF startPat = <<>> \/ endPat = <<>> THEN <<>>
           ELSE BoundaryLoop(text, startPat, endPat, buildLineOffsets(text), 0)

\* DSLProcessor.findAllBlocks
findAllBlocks(content, block) ==
  IF block.blockType = "exact" THEN findAllBlocksExact(content, block)
  ELSE findAllBlocksBoundary(content, block)

\* ---------------------------------------------------------- data model
\* types.ts Block; an absent pattern is the empty text
ExactBlock(c) ==
  [blockType |-> "exact", content |-> c, startPattern |-> <<>>, endPattern |-> <<>>]

BoundaryBlock(s, e) ==
  [blockType |-> "boundary", content |-> <<>>, startPattern |-> s, endPattern |-> e]

\* an absent replacementBlock (undefined)
NoBlock ==
  [blockType |-> "none", content |-> <<>>, startPattern |-> <<>>, endPattern |-> <<>>]

\* the target parseTargetBlock gives insert at start / insert at end
PlaceholderBlock == ExactBlock(<<>>)

\* a command without an `in files` line has no scope (undefined)
NoScope == [present |-> FALSE, files |-> <<>>]

\* types.ts DSLInstruction; insertPosition "none" is undefined, scope is
\* [present, files]
Instruction(op, pos, target, repl, scope) ==
  [operation |-> op, insertPosition |-> pos, targetBlock |-> target,
   replacementBlock |-> repl, scope |-> scope]

\* ---------------------------------------------------------- mutation engine
RECURSIVE InsertDesc(_, _, _)
\* stable insertion of x behind every element whose key is >= key(x)
InsertDesc(sorted, x, key) ==
  IF sorted = <<>> THEN <<x>>
  ELSE IF Head(sorted)[key] >= x[key]
       THEN <<Head(sorted)>> \o InsertDesc(Tail(sorted), x, key)
       ELSE <<x>> \o sorted

RECURSIVE SortDescFrom(_, _, _, _)
SortDescFrom(results, i, acc, key) ==
  IF i > Len(results) THEN acc
  ELSE SortDescFrom(results, i + 1, InsertDesc(acc, results[i], key), key)

\* Array.prototype.sort((a, b) => b[key] - a[key]): stable, descending
SortDesc(results, key) == SortDescFrom(results, 1, <<>>, key)

\* applyReplace lines 81-86: one Boundary match replaced by whole lines
ReplaceLines(modifiedContent, result, replacement) ==
  LET lines == Split(modifiedContent)
      before == Slice(lines, 0, result.startLine - 1)
      after == Slice(lines, result.endLine, Len(lines))
  IN  Join(before \o Split(replacement) \o after)

\* applyReplace lines 93-95: one Exact match replaced by character span
ReplaceSpan(modifiedContent, result, replacement) ==
  Substring(modifiedContent, 0, result.startPos) \o replacement
    \o Substring(modifiedContent, result.endPos + 1, Len(modifiedContent))

RECURSIVE ReplaceLoop(_, _, _, _, _)
ReplaceLoop(modifiedContent, results, i, blockType, replacement) ==
  IF i > Len(results) THEN modifiedContent
  ELSE ReplaceLoop(IF blockType = "boundary"
                   THEN ReplaceLines(modifiedContent, results[i], replacement)
                   ELSE ReplaceSpan(modifiedContent, results[i], replacement),
                   results, i + 1, blockType, replacement)

\* (mutant) the matches are spliced first to last
ReplaceOrderAscending(results) == results

\* applyReplace line 68: the order in which the matches are spliced
ReplaceOrder(results) == SortDesc(results, "startPos")

\* DSLProcessor.applyReplace; status "notfound" is BlockNotFoundError,
\* "moderror" is ModificationError
applyReplace(instruction, content) ==
  LET results == findAllBlocks(content, instruction.targetBlock)
  IN  IF results = <<>> THEN [status |-> "notfound", content |-> content]
      ELSE IF instruction.replacementBlock.blockType = "none"
      THEN [status |-> "moderror", content |-> content]
      ELSE [status |-> "ok",
            content |-> ReplaceLoop(content, ReplaceOrder(results), 1,
                                    instruction.targetBlock.blockType,
                                    instruction.replacementBlock.content)]

RECURSIVE DeleteLoop(_, _, _)
DeleteLoop(lines, results, i) ==
  IF i > Len(results) THEN lines
  ELSE DeleteLoop(Splice(lines, results[i].startLine - 1,
                         results[i].endLine - results[i].startLine + 1, <<>>),
                  results, i + 1)

\* applyDelete line 110: the order in which the matches are removed
DeleteOrder(results) == SortDesc(results, "startLine")

\* DSLProcessor.applyDelete
applyDelete(instruction, content) ==
  LET results == findAllBlocks(content, instruction.targetBlock)
  IN  IF results = <<>> THEN [status |-> "notfound", content |-> content]
      ELSE [status |-> "ok",
            content |-> Join(DeleteLoop(Split(content), DeleteOrder(results), 1))]

\* DSLProcessor.isEdgeInsertion
isEdgeInsertion(position) == position \in {"at_start", "at_end"}

\* DSLProcessor.applyInsertAtEdge
applyInsertAtEdge(instruction, content) ==
  LET insertion == instruction.replacementBlock.content
  IN  [status |-> "ok",
       content |-> IF instruction.insertPosition = "at_start"
                   THEN (IF content # <<>> THEN insertion \o <<NL>> \o content ELSE insertion)
                   ELSE (IF content # <<>> THEN content \o <<NL>> \o insertion ELSE insertion)]

RECURSIVE InsertLoop(_, _, _, _, _)
InsertLoop(lines, results, i, position, insertionLines) ==
  IF i > Len(results) THEN lines
  ELSE InsertLoop(Splice(lines,
                         IF position = "before" THEN results[i].startLine - 1
                         ELSE results[i].endLine,
                         0, insertionLines),
                  results, i + 1, position, insertionLines)

\* DSLProcessor.applyInsertRelative
applyInsertRelative(instruction, content) ==
  LET results == findAllBlocks(content, instruction.targetBlock)
  IN  IF results = <<>> THEN [status |-> "notfound", content |-> content]
      ELSE [status |-> "ok",
            content |-> Join(InsertLoop(Split(content), SortDesc(results, "startLine"), 1,
                                        instruction.insertPosition,
                                        Split(instruction.replacementBlock.content)))]

\* DSLProcessor.applyInsert
applyInsert(instruction, content) ==
  IF instruction.replacementBlock.blockType = "none" \/ instruction.insertPosition = "none"
  THEN [status |-> "moderror", content |-> content]
  ELSE IF isEdgeInsertion(instruction.insertPosition)
  THEN applyInsertAtEdge(instruction, content)
  ELSE applyInsertRelative(instruction, content)

\* whether applyInstruction searches the buffer for the target block
Searches(instruction) ==
  instruction.operation \in {"replace", "delete"}
  \/ (instruction.operation = "insert" /\ instruction.replacementBlock.blockType # "none"
      /\ instruction.insertPosition \in {"before", "after"})

\* applyInstruction does not return: its search of the buffer never ends
EngineDiverges(instruction) ==
  Searches(instruction) /\ ExactDiverges(instruction.targetBlock)

\* DSLProcessor.applyInstruction / applySingleOperation (when it returns)
applyInstruction(instruction, content) ==
  IF instruction.operation = "replace" THEN applyReplace(instruction, content)
  ELSE IF instruction.operation = "delete" THEN applyDelete(instruction, content)
  ELSE applyInsert(instruction, content)

\* ------------------------------------------------------------ buffer store
\* the text of a FileInfo.lineEnding tag
EolText(eol) == IF eol = "CRLF" THEN <<CR, NL>> ELSE <<NL>>

RECURSIVE ReplaceCrLf(_, _)
\* content.replace(/\r\n/g, '\n')
ReplaceCrLf(text, i) ==
  IF i > Len(text) THEN <<>>
  ELSE IF text[i] = CR /\ i < Len(text) /\ text[i + 1] = NL
       THEN <<NL>> \o ReplaceCrLf(text, i + 2)
       ELSE <<text[i]>> \o ReplaceCrLf(text, i + 1)

\* fileHelpers.normalizeLineEndings: \r\n to \n, then \r to \n
normalizeLineEndings(content) ==
  LET noCrLf == ReplaceCrLf(content, 1)
  IN  [i \in 1..Len(noCrLf) |-> IF noCrLf[i] = CR THEN NL ELSE noCrLf[i]]

RECURSIVE ReplaceLf(_, _, _)
\* text.replace(/\n/g, eolText)
ReplaceLf(text, i, eolText) ==
  IF i > Len(text) THEN <<>>
  ELSE (IF text[i] = NL THEN eolText ELSE <<text[i]>>) \o ReplaceLf(text, i + 1, eolText)

\* fileHelpers.detectMixedLineEndings
detectMixedLineEndings(content) ==
  LET crlfCount == Cardinality({i \in 1..(Len(content) - 1) :
                                  content[i] = CR /\ content[i + 1] = NL})
      lfCount == Cardinality({i \in 1..Len(content) :
                                content[i] = NL /\ (i = 1 \/ content[i - 1] # CR)})
  IN  [isMixed |-> crlfCount > 0 /\ lfCount > 0,
       predominant |-> IF crlfCount >= lfCount THEN "CRLF" ELSE "LF"]

\* fileHelpers.normalizeToEol
normalizeToEol(content, eol) ==
  LET normalized == normalizeLineEndings(content)
  IN  IF eol = "CRLF" THEN ReplaceLf(normalized, 1, <<CR, NL>>) ELSE normalized

\* String.prototype.endsWith
EndsWith(text, suffix) ==
  Len(text) >= Len(suffix)
  /\ SubSeq(text, Len(text) - Len(suffix) + 1, Len(text)) = suffix

\* fileHelpers.readFileWithInfo when the document opens: file is the stored
\* document [raw, eol]; the text the document returns is taken to be the
\* stored text (every later use normalises it)
readFileWithInfo(file) ==
  LET mixedCheck == detectMixedLineEndings(file.raw)
  IN  [content |-> file.raw,
       info |-> [lineEnding |-> file.eol,
                 endsWithNewline |-> Len(file.raw) > 0
                                       /\ (EndsWith(file.raw, <<NL>>)
                                           \/ EndsWith(file.raw, <<CR, NL>>)),
                 isMixed |-> mixedCheck.isMixed,
                 predominant |-> mixedCheck.predominant]]

\* fileHelpers.restoreLineEndings
restoreLineEndings(content, lineEnding) ==
  IF lineEnding = "LF" THEN content
  ELSE ReplaceLf(normalizeLineEndings(content), 1, EolText(lineEnding))

\* fileHelpers.writeFilePreservingFormat lines 153-167: the text handed to
\* the workspace edit
FinalContent(content, originalInfo) ==
  LET restored == restoreLineEndings(content, originalInfo.lineEnding)
      eolText == EolText(originalInfo.lineEnding)
  IN  IF originalInfo.endsWithNewline /\ ~EndsWith(restored, eolText)
      THEN restored \o eolText
      ELSE IF ~originalInfo.endsWithNewline
      THEN IF EndsWith(restored, <<CR, NL>>) THEN SubSeq(restored, 1, Len(restored) - 2)
           ELSE IF EndsWith(restored, <<NL>>) \/ EndsWith(restored, <<CR>>)
           THEN SubSeq(restored, 1, Len(restored) - 1)
           ELSE restored
      ELSE restored

\* ------------------------------------------------- engine specification
\* engine specification: one call of findAllBlocks or applyInstruction
VARIABLES ePhase, eInstr, eBuf, eSpans, eOut

\* orchestrator: one call of applyToFilesUri.  input holds the arguments and
\* the configuration; store is the buffer store; parsed, resolving and settled
\* are the state of the Promise.all over the commands; tIdx and cIdx are the
\* positions of the two loops; inflight is the pair being evaluated; result is
\* the OperationsResult; log is the history of the store calls
VARIABLES input, pc, store, cancelled, parsed, resolving, settled, tIdx, cIdx,
          inflight, result, log

\* in-memory apply: one call of BlockEditor.apply.  aCommands, aInput and
\* aMode are the arguments; aIdx is the position of the loop over the
\* commands; aContent is currentContent; aResult is the OperationsResult
VARIABLES aPc, aCommands, aInput, aMode, aIdx, aContent, aResult

\* parser: one call of DSLParser.parse.  pText is the command text as its
\* lines; pOut is what the call returned or threw
VARIABLES pPhase, pText, pOut

\* write-back: one read of a target and one write of a mutation result to it
\* (executeFileOperationUri lines 624-634).  wFile is the stored document
\* [raw, eol]; wContent is the mutation result; wInfo is the FileInfo of the
\* read; wStored is the text the store holds after the write
VARIABLES wPhase, wFile, wContent, wInfo, wStored

\* panel: the webview (vInput is the value of the input, vBusy is
\* isProcessing, vDisabled is applyButton.disabled, vTimer tells whether the
\* 30-second timer is armed) and the host (hRuns holds the runs of
\* _previewAndApply, hClear counts the open Clear / Keep dialogs); toHost and
\* toView are the messages posted and not yet handled.  vPosted counts the
\* executeCommands requests posted and vClears records which request's
\* message cleared the busy state while which request was in progress
VARIABLES vInput, vBusy, vDisabled, vTimer, vPosted, vClears, toHost, toView,
          hRuns, hClear

engVars == <<ePhase, eInstr, eBuf, eSpans, eOut>>

memVars == <<aPc, aCommands, aInput, aMode, aIdx, aContent, aResult>>

prsVars == <<pPhase, pText, pOut>>

wrtVars == <<wPhase, wFile, wContent, wInfo, wStored>>

pnlVars == <<vInput, vBusy, vDisabled, vTimer, vPosted, vClears, toHost, toView,
             hRuns, hClear>>

orchVars == <<input, pc, store, cancelled, parsed, resolving, settled, tIdx, cIdx,
              inflight, result, log>>

vars == <<engVars, orchVars, memVars, prsVars, wrtVars, pnlVars>>

\* literal contents of the Exact target blocks tried (the empty one is the
\* body of an empty BEGIN/END pair)
ExactContents ==
  {<<"A">>, <<"A", "A">>, <<"A", "B">>, <<"A", NL>>, <<NL, "A">>, <<NL>>, <<"A", NL, "B">>, <<>>}

\* start / end patterns of the Boundary target blocks tried
BoundaryPairs ==
  {<<<<"A">>, <<"B">>>>, <<<<"A">>, <<"A">>>>, <<<<"A">>, <<NL>>>>,
   <<<<"A">>, <<"A", "B">>>>, <<<<"A", NL>>, <<"B">>>>, <<<<NL>>, <<"A">>>>,
   <<<<>>, <<"B">>>>, <<<<"A">>, <<>>>>}

\* literal contents of the replacement blocks tried
Replacements ==
  {<<>>, <<"B">>, <<"A">>, <<"B", NL, "B">>, <<"B", "A">>}

EngTargets ==
  {ExactBlock(c) : c \in ExactContents}
    \cup {BoundaryBlock(p[1], p[2]) : p \in BoundaryPairs}

EngInstructions ==
  {Instruction("replace", "none", t, ExactBlock(r), NoScope) :
     t \in EngTargets, r \in Replacements}
    \cup {Instruction("delete", "none", t, NoBlock, NoScope) : t \in EngTargets}
    \cup {Instruction("insert", pos, t, ExactBlock(r), NoScope) :
            pos \in {"before", "after"}, t \in EngTargets, r \in Replacements}
    \cup {Instruction("insert", pos, PlaceholderBlock, ExactBlock(r), NoScope) :
            pos \in {"at_start", "at_end"}, r \in Replacements}

NoOut == [status |-> "none", content |-> <<>>]

\* the buffers tried: every text up to MaxBuf characters, and one in which two
\* Boundary matches start on the same line and end on different lines
EngBuffers == StringsUpTo(EngChars, MaxBuf) \cup {<<"A", "B", "A", NL, "B">>}

EngInputs ==
  /\ ePhase = "input"
  /\ eBuf \in EngBuffers
  /\ eInstr \in EngInstructions
  /\ eSpans = <<>>
  /\ eOut = NoOut

\* DSLProcessor.findAllBlocks(eBuf, eInstr.targetBlock) returns
EngFindAll ==
  /\ ePhase = "input"
  /\ ~ExactDiverges(eInstr.targetBlock)
  /\ eSpans' = findAllBlocks(eBuf, eInstr.targetBlock)
  /\ ePhase' = "found"
  /\ UNCHANGED <<eInstr, eBuf, eOut>>
  /\ UNCHANGED <<orchVars, memVars, prsVars, wrtVars, pnlVars>>

\* DSLProcessor.findAllBlocks(eBuf, eInstr.targetBlock) does not return
EngFindAllHangs ==
  /\ ePhase = "input"
  /\ ExactDiverges(eInstr.targetBlock)
  /\ ePhase' = "hung"
  /\ UNCHANGED <<eInstr, eBuf, eSpans, eOut>>
  /\ UNCHANGED <<orchVars, memVars, prsVars, wrtVars, pnlVars>>

\* DSLProcessor.applyInstruction(eInstr, eBuf) returns or throws
EngApply ==
  /\ ePhase = "input"
  /\ ~EngineDiverges(eInstr)
  /\ eOut' = applyInstruction(eInstr, eBuf)
  /\ eSpans' = IF Searches(eInstr) THEN findAllBlocks(eBuf, eInstr.targetBlock) ELSE <<>>
  /\ ePhase' = "done"
  /\ UNCHANGED <<eInstr, eBuf>>
  /\ UNCHANGED <<orchVars, memVars, prsVars, wrtVars, pnlVars>>

\* DSLProcessor.applyInstruction(eInstr, eBuf) does not return
EngApplyHangs ==
  /\ ePhase = "input"
  /\ EngineDiverges(eInstr)
  /\ ePhase' = "hung"
  /\ UNCHANGED <<eInstr, eBuf, eSpans, eOut>>
  /\ UNCHANGED <<orchVars, memVars, prsVars, wrtVars, pnlVars>>

EngNext == EngFindAll \/ EngFindAllHangs \/ EngApply \/ EngApplyHangs


\* ------------------------------------------------------- command parsing
\* DSLParser.parseOperation / parseInsertPosition on the (trimmed, lower-cased)
\* operation line; ok = FALSE is a ParseError
parseOperation(opLine) ==
  IF opLine = "replace block" THEN [ok |-> TRUE, operation |-> "replace", insertPosition |-> "none"]
  ELSE IF opLine = "delete block" THEN [ok |-> TRUE, operation |-> "delete", insertPosition |-> "none"]
  ELSE IF opLine = "insert before" THEN [ok |-> TRUE, operation |-> "insert", insertPosition |-> "before"]
  ELSE IF opLine = "insert after" THEN [ok |-> TRUE, operation |-> "insert", insertPosition |-> "after"]
  ELSE IF opLine = "insert at start" THEN [ok |-> TRUE, operation |-> "insert", insertPosition |-> "at_start"]
  ELSE IF opLine = "insert at end" THEN [ok |-> TRUE, operation |-> "insert", insertPosition |-> "at_end"]
  ELSE [ok |-> FALSE, operation |-> "none", insertPosition |-> "none"]

RECURSIVE ParseScopeLoop(_, _, _)
\* the while loop of parseScope over the `in files [...]` lines; each line is
\* [valid, files]: its JSON list of patterns, or not valid when
\* parseFilesScope rejects it
ParseScopeLoop(scopeLines, i, scope) ==
  IF i > Len(scopeLines) THEN [ok |-> TRUE, scope |-> scope]
  ELSE IF ~scopeLines[i].valid THEN [ok |-> FALSE, scope |-> NoScope]
  ELSE ParseScopeLoop(scopeLines, i + 1, [present |-> TRUE, files |-> scopeLines[i].files])

\* DSLParser.parseScope / parseFilesScope: ok = FALSE is a ParseError; an
\* empty list is a scope, since `if (scope.files)` is true of every array
parseScope(scopeLines) == ParseScopeLoop(scopeLines, 1, NoScope)

\* what parse returns for a command it rejects
ParseFailure ==
  [ok |-> FALSE, instruction |-> Instruction("none", "none", NoBlock, NoBlock, NoScope)]

\* DSLParser.parse on a command given by its operation line, its blocks and
\* its scope lines
parse(command) ==
  LET op == parseOperation(command.opLine)
      sc == parseScope(command.scopeLines)
  IN  IF ~op.ok \/ ~sc.ok THEN ParseFailure
      ELSE IF op.operation \in {"replace", "insert"} /\ command.repl = NoBlock
      THEN ParseFailure
      ELSE [ok |-> TRUE,
            instruction |-> Instruction(op.operation, op.insertPosition,
                                        IF isEdgeInsertion(op.insertPosition)
                                        THEN PlaceholderBlock ELSE command.target,
                                        IF op.operation = "delete" THEN NoBlock
                                        ELSE command.repl,
                                        sc.scope)]

\* applyToFilesUri line 264: instruction.scope?.files?.length
HasScopedFiles(instruction) ==
  instruction.scope.present /\ Len(instruction.scope.files) > 0

\* ---------------------------------------------------------------- locator
\* the files of the workspace and one file outside every workspace folder
WorkspaceFiles == {"f1", "f2"}

OutsideFile == "x"

\* (mutant) every URI is taken to have a workspace folder
InWorkspaceAlways(uri) == TRUE

\* vscode.workspace.getWorkspaceFolder(uri) is defined
InWorkspace(uri) == uri \in WorkspaceFiles

\* the files one pattern matches (findFiles / stat of the candidate path)
Matches(pattern) ==
  IF pattern \in WorkspaceFiles THEN {pattern}
  ELSE IF pattern = "*" THEN WorkspaceFiles
  ELSE IF pattern = OutsideFile THEN {OutsideFile}
  ELSE {}

\* FileResolver.deduplicateUris: only URIs with an owning workspace folder
deduplicateUris(uris) == {u \in uris : InWorkspace(u)}

\* ------------------------------------------------------------ orchestrator
\* BlockEditor.handleMixedEolUri
handleMixedEolUri(policy) ==
  IF policy = "skip" THEN [skip |-> TRUE, normalize |-> FALSE]
  ELSE IF policy = "normalize" THEN [skip |-> FALSE, normalize |-> TRUE]
  ELSE [skip |-> FALSE, normalize |-> FALSE]

\* applyToSingleFileUri lines 402-438: the file data after the mixed-EOL policy
ApplyEolPolicy(fileData, policy) ==
  LET hr == handleMixedEolUri(policy)
  IN  IF ~fileData.info.isMixed THEN [skip |-> FALSE, data |-> fileData]
      ELSE IF hr.skip THEN [skip |-> TRUE, data |-> fileData]
      ELSE IF hr.normalize
      THEN [skip |-> FALSE,
            data |-> [content |-> normalizeToEol(fileData.content, fileData.info.predominant),
                      info |-> [fileData.info EXCEPT !.lineEnding = fileData.info.predominant,
                                                     !.isMixed = FALSE]]]
      ELSE IF policy = "warn"
      THEN [skip |-> FALSE,
            data |-> [fileData EXCEPT !.info.lineEnding = fileData.info.predominant]]
      ELSE [skip |-> FALSE, data |-> fileData]

\* (mutant) no run takes the preview branch
IsPreviewNever(mode) == FALSE

\* applyToSingleFileUri line 444: the preview branch returns before any write
IsPreview(mode) == mode = "preview"

\* the status vocabulary of a mode
StatusIn(mode, kind) ==
  IF mode = "preview"
  THEN (IF kind = "success" THEN "WOULD_SUCCESS"
        ELSE IF kind = "skip" THEN "WOULD_SKIP" ELSE "WOULD_ERROR")
  ELSE (IF kind = "success" THEN "SUCCESS"
        ELSE IF kind = "skip" THEN "SKIPPED" ELSE "ERROR")

\* applyToSingleFileUri lines 405-415: the outcome of a skipped mixed-EOL file
MixedEolResult(mode) ==
  [operationType |-> "MIXED_EOL", status |-> StatusIn(mode, "skip"),
   isPreview |-> mode = "preview", reasonCode |-> "MIXED_EOL"]

\* (mutant) a zero-match result reported as a plain error
EngineResultNotFoundAsError(instruction, mode, status) ==
  [operationType |-> instruction.operation,
   status |-> IF status = "ok" THEN StatusIn(mode, "success") ELSE StatusIn(mode, "error"),
   isPreview |-> mode = "preview",
   reasonCode |-> "none"]

\* previewOperationUri / executeFileOperationUri: the outcome of an engine
\* result ("ok" in apply mode: after the write returned)
EngineResult(instruction, mode, status) ==
  [operationType |-> instruction.operation,
   status |-> IF status = "ok" THEN StatusIn(mode, "success")
              ELSE IF status = "notfound" THEN StatusIn(mode, "skip")
              ELSE StatusIn(mode, "error"),
   isPreview |-> mode = "preview",
   reasonCode |-> IF status = "notfound" THEN "NOT_FOUND" ELSE "none"]

\* createErrorResultUri for an error that is no BlockNotFoundError
ErrorResult(instruction, mode) ==
  [operationType |-> instruction.operation, status |-> StatusIn(mode, "error"),
   isPreview |-> mode = "preview", reasonCode |-> "none"]

\* handleParseError
ParseErrorResult(mode) ==
  [operationType |-> "UNKNOWN", status |-> StatusIn(mode, "error"),
   isPreview |-> mode = "preview", reasonCode |-> "none"]

\* applyToFilesUri lines 317-331: the outcome for a target outside the workspace
SecurityResult(mode) ==
  [operationType |-> "SECURITY", status |-> StatusIn(mode, "error"),
   isPreview |-> mode = "preview", reasonCode |-> "OUTSIDE_WORKSPACE"]

\* result.operations.push(operation) and the counters (lines 359-369; the
\* parse-error and security outcomes count as errors, lines 333, 785)
Record(res, operation) ==
  LET st == operation.status
  IN  [res EXCEPT
         !.operations = Append(@, operation),
         !.successful = IF st \in {"SUCCESS", "WOULD_SUCCESS"} THEN @ + 1 ELSE @,
         !.totalBlocks = IF st \in {"SUCCESS", "WOULD_SUCCESS"} THEN @ + 1 ELSE @,
         !.skipped = IF st \in {"SKIPPED", "WOULD_SKIP"} THEN @ + 1 ELSE @,
         !.errors = IF st \in {"ERROR", "WOULD_ERROR"} THEN @ + 1 ELSE @]

\* (mutant) the parsed commands in the order their promises settled
SettleOrder(order, n) == order

\* Promise.all (line 256): the parsed commands in command order, whatever the
\* order in which their promises settled
PromiseAllOrder(order, n) == [k \in 1..n |-> k]

\* (mutant) a snapshot of the target taken before the run is read
ReadStale(current, original) == original

\* readFile(fileUri) (line 399) reads the target as the store holds it now
ReadSource(current, original) == current

\* ------------------------------------------- orchestrator specification
\* most commands in one call
MaxCmds == 2

\* most targets in one call
MaxTargets == 2

RECURSIVE SeqsUpTo(_, _)
\* all sequences over S of length <= n
SeqsUpTo(S, n) ==
  IF n = 0 THEN {<<>>}
  ELSE LET shorter == SeqsUpTo(S, n - 1)
       IN  shorter \cup {Append(q, x) : q \in {r \in shorter : Len(r) = n - 1}, x \in S}

\* one `in files [...]` line with a well-formed list
FilesLine(files) == [valid |-> TRUE, files |-> files]

Command(opLine, target, repl, scopeLines) ==
  [opLine |-> opLine, target |-> target, repl |-> repl, scopeLines |-> scopeLines]

\* the commands a call is given
OrchCommands ==
  { Command("replace block", ExactBlock(<<"A">>), ExactBlock(<<"B">>), <<>>),
    Command("delete block", ExactBlock(<<"B">>), NoBlock, <<FilesLine(<<"f1">>)>>),
    Command("insert at end", NoBlock, ExactBlock(<<"A">>),
            <<FilesLine(<<"nomatch", "x", "*">>)>>),
    Command("replace block", BoundaryBlock(<<"A">>, <<"B">>), ExactBlock(<<>>),
            <<FilesLine(<<>>)>>),
    Command("rename block", ExactBlock(<<"A">>), ExactBlock(<<"B">>), <<>>),
    Command("delete block", ExactBlock(<<>>), NoBlock, <<FilesLine(<<"f2">>)>>) }

CommandLists == SeqsUpTo(OrchCommands, MaxCmds)

TargetLists ==
  {q \in SeqsUpTo(WorkspaceFiles \cup {OutsideFile}, MaxTargets) :
     \A i, j \in 1..Len(q) : i # j => q[i] # q[j]}

File(raw, eol) == [raw |-> raw, eol |-> eol]

\* the stored documents at the start of a call
Stores ==
  { [f \in WorkspaceFiles \cup {OutsideFile} |->
       IF f = "f1" THEN a ELSE IF f = "f2" THEN b ELSE File(<<"A">>, "LF")] :
      a \in {File(<<"A", NL, "B", NL>>, "LF")},
      b \in {File(<<"A", CR, NL, "B", NL, "A">>, "CRLF")} }

Policies == {"ignore", "skip", "warn", "normalize"}

Idle == [rawBefore |-> <<>>, content |-> <<>>,
         info |-> [lineEnding |-> "LF", endsWithNewline |-> FALSE,
                   isMixed |-> FALSE, predominant |-> "LF"]]

NoTargetFiles == [defined |-> FALSE, uris |-> {}]

EmptyResult ==
  [operations |-> <<>>, successful |-> 0, skipped |-> 0, errors |-> 0, totalBlocks |-> 0]

OrchInputs ==
  /\ input \in [commands : CommandLists, fileUris : TargetLists,
                mode : {"apply", "preview"}, mixedEolPolicy : Policies,
                validatePaths : BOOLEAN, store0 : Stores]
  /\ pc = "start"
  /\ store = input.store0
  /\ cancelled = FALSE
  /\ parsed = <<>>
  /\ resolving = <<>>
  /\ settled = <<>>
  /\ tIdx = 0
  /\ cIdx = 0
  /\ inflight = Idle
  /\ result = EmptyResult
  /\ log = <<>>

NumCommands == Len(input.commands)

\* the ghost fields every outcome carries besides those of OperationResult:
\* the pair it belongs to (cmd 0: no command, target "none": no target file),
\* whether the read returned, the target's stored text at the read and at the
\* return, and whether writeFile was invoked ("ok", "failed") or not ("none")
Outcome(operation, target, cmd, readOk, rawBefore, rawAfter, wrote) ==
  [operationType |-> operation.operationType, status |-> operation.status,
   isPreview |-> operation.isPreview, reasonCode |-> operation.reasonCode,
   target |-> target, cmd |-> cmd, readOk |-> readOk,
   rawBefore |-> rawBefore, rawAfter |-> rawAfter, wrote |-> wrote]

\* the commands whose promise is settled once every command was parsed: those
\* that failed to parse and those that await no scope resolution
SettledAtParse(ps) ==
  LET now == {i \in 1..Len(ps) : ~ps[i].ok \/ ~HasScopedFiles(ps[i].instruction)}
      nth(k) == CHOOSE i \in now : Cardinality({j \in now : j < i}) = k - 1
  IN  [k \in 1..Cardinality(now) |-> nth(k)]

\* applyToFilesUri lines 250-291 up to the first await: the early return, or
\* every command parsed and every scope resolution started
Begin ==
  /\ pc = "start"
  /\ IF NumCommands = 0 \/ Len(input.fileUris) = 0
     THEN /\ pc' = "done"
          /\ UNCHANGED <<parsed, resolving, settled>>
     ELSE LET ps == [i \in 1..NumCommands |->
                       LET r == parse(input.commands[i])
                       IN  [ok |-> r.ok, instruction |-> r.instruction,
                            targetFiles |-> NoTargetFiles]]
          IN  /\ parsed' = ps
              /\ resolving' = [i \in 1..NumCommands |->
                                 [active |-> ps[i].ok /\ HasScopedFiles(ps[i].instruction),
                                  pos |-> 1, collected |-> {}]]
              /\ settled' = SettledAtParse(ps)
              /\ pc' = "resolving"
  /\ UNCHANGED <<input, store, cancelled, tIdx, cIdx, inflight, result, log>>
  /\ UNCHANGED <<engVars, memVars, prsVars, wrtVars, pnlVars>>

\* FileResolver.resolveTargets for command i, one pattern of its loop (lines
\* 82-241): the cancellation check, then the lookup; after the last pattern,
\* or on cancellation, lines 243-259 and applyToFilesUri line 270
ResolveStep(i) ==
  /\ pc = "resolving"
  /\ resolving[i].active
  /\ LET files == parsed[i].instruction.scope.files
         r == resolving[i]
         got == IF cancelled THEN r.collected
                ELSE r.collected \cup Matches(files[r.pos])
         last == cancelled \/ r.pos = Len(files)
     IN  /\ resolving' = [resolving EXCEPT ![i] =
                            [active |-> ~last, pos |-> r.pos + 1, collected |-> got]]
         /\ parsed' = IF last
                      THEN [parsed EXCEPT ![i].targetFiles =
                              [defined |-> TRUE, uris |-> deduplicateUris(got)]]
                      ELSE parsed
         /\ settled' = IF last THEN Append(settled, i) ELSE settled
  /\ UNCHANGED <<input, pc, store, cancelled, tIdx, cIdx, inflight, result, log>>
  /\ UNCHANGED <<engVars, memVars, prsVars, wrtVars, pnlVars>>

RECURSIVE RecordParseErrors(_, _, _)
\* applyToFilesUri lines 294-302
RecordParseErrors(res, order, k) ==
  IF k > Len(order) THEN res
  ELSE RecordParseErrors(
         IF parsed[order[k]].ok THEN res
         ELSE Record(res, Outcome(ParseErrorResult(input.mode), "none", order[k],
                                  FALSE, <<>>, <<>>, "none")),
         order, k + 1)

\* Promise.all has settled: the parse errors are recorded and the loop over
\* the targets starts
HandleParseErrors ==
  /\ pc = "resolving"
  /\ Len(settled) = NumCommands
  /\ result' = RecordParseErrors(result, PromiseAllOrder(settled, NumCommands), 1)
  /\ tIdx' = 1
  /\ pc' = "target"
  /\ UNCHANGED <<input, store, cancelled, parsed, resolving, settled, cIdx, inflight, log>>
  /\ UNCHANGED <<engVars, memVars, prsVars, wrtVars, pnlVars>>

\* (mutant) the loop over the targets never reads the token
NeverCancelled(token) == FALSE

\* token?.isCancellationRequested at the head of the loop over the targets
\* (line 307)
isCancellationRequested(token) == token

\* applyToFilesUri lines 305-337: the head of the loop over the targets
TargetCheck ==
  /\ pc = "target"
  /\ IF tIdx > Len(input.fileUris) \/ isCancellationRequested(cancelled)
     THEN /\ pc' = "done"
          /\ UNCHANGED <<tIdx, cIdx, result>>
     ELSE IF input.validatePaths /\ ~InWorkspace(input.fileUris[tIdx])
     THEN /\ result' = Record(result, Outcome(SecurityResult(input.mode),
                                              input.fileUris[tIdx], 0, FALSE,
                                              <<>>, <<>>, "none"))
          /\ tIdx' = tIdx + 1
          /\ UNCHANGED <<pc, cIdx>>
     ELSE /\ cIdx' = 1
          /\ pc' = "cmd"
          /\ UNCHANGED <<tIdx, result>>
  /\ UNCHANGED <<input, store, cancelled, parsed, resolving, settled, inflight, log>>
  /\ UNCHANGED <<engVars, memVars, prsVars, wrtVars, pnlVars>>

\* the command the inner loop is at
CurrentCmd == PromiseAllOrder(settled, NumCommands)[cIdx]

CurrentTarget == input.fileUris[tIdx]

\* applyToFilesUri lines 340-355: the head of the loop over the commands, up
\* to the call of readFile in applyToSingleFileUri (line 399)
NextCommand ==
  /\ pc = "cmd"
  /\ IF cIdx > NumCommands
     THEN /\ tIdx' = tIdx + 1
          /\ pc' = "target"
          /\ UNCHANGED <<cIdx, log>>
     ELSE IF ~parsed[CurrentCmd].ok
             \/ (parsed[CurrentCmd].targetFiles.defined
                 /\ CurrentTarget \notin parsed[CurrentCmd].targetFiles.uris)
     THEN /\ cIdx' = cIdx + 1
          /\ UNCHANGED <<pc, tIdx, log>>
     ELSE /\ pc' = "reading"
          /\ log' = Append(log, [ev |-> "read", target |-> CurrentTarget,
                                 cmd |-> CurrentCmd, content |-> <<>>])
          /\ UNCHANGED <<tIdx, cIdx>>
  /\ UNCHANGED <<input, store, cancelled, parsed, resolving, settled, inflight, result>>
  /\ UNCHANGED <<engVars, memVars, prsVars, wrtVars, pnlVars>>

\* (mutant) an error outcome ends the loop over the commands of the target
AbortOnError(c, operation) ==
  IF operation.status \in {"ERROR", "WOULD_ERROR"} THEN NumCommands + 1 ELSE c + 1

\* applyToSingleFileUri catches whatever the evaluation throws (line 457), so
\* the loop over the commands goes on to the next one after every outcome
ContinueAfter(c, operation) == c + 1

\* the pair's outcome is pushed and counted (lines 358-369); the inner loop
\* moves on
Finish(operation, readOk, rawBefore, rawAfter, wrote) ==
  /\ result' = Record(result, Outcome(operation, CurrentTarget, CurrentCmd,
                                      readOk, rawBefore, rawAfter, wrote))
  /\ cIdx' = ContinueAfter(cIdx, operation)
  /\ pc' = "cmd"
  /\ inflight' = Idle

\* readFile throws: applyToSingleFileUri's catch (line 457)
ReadFails ==
  /\ pc = "reading"
  /\ Finish(ErrorResult(parsed[CurrentCmd].instruction, input.mode), FALSE,
            store[CurrentTarget].raw, store[CurrentTarget].raw, "none")
  /\ UNCHANGED <<input, store, cancelled, parsed, resolving, settled, tIdx, log>>
  /\ UNCHANGED <<engVars, memVars, prsVars, wrtVars, pnlVars>>

\* what readFile returns for the current target
FileDataRead ==
  readFileWithInfo([store[CurrentTarget] EXCEPT
                      !.raw = ReadSource(store[CurrentTarget].raw,
                                         input.store0[CurrentTarget].raw)])

\* readFile returns: applyToSingleFileUri lines 402-455 up to the return, or
\* to the call of writeFile in executeFileOperationUri (line 634)
ReadReturns ==
  /\ pc = "reading"
  /\ LET instruction == parsed[CurrentCmd].instruction
         fileData == FileDataRead
         pol == ApplyEolPolicy(fileData, input.mixedEolPolicy)
         normalizedContent == normalizeLineEndings(pol.data.content)
         raw == store[CurrentTarget].raw
     IN  IF pol.skip
         THEN /\ Finish(MixedEolResult(input.mode), TRUE, fileData.content, raw, "none")
              /\ UNCHANGED log
         ELSE /\ ~EngineDiverges(instruction)
              /\ LET out == applyInstruction(instruction, normalizedContent)
                 IN  IF IsPreview(input.mode) \/ out.status # "ok"
                     THEN /\ Finish(EngineResult(instruction, input.mode, out.status),
                                    TRUE, fileData.content, raw, "none")
                          /\ UNCHANGED log
                     ELSE /\ inflight' = [rawBefore |-> fileData.content,
                                          content |-> out.content,
                                          info |-> pol.data.info]
                          /\ log' = Append(log, [ev |-> "write", target |-> CurrentTarget,
                                                 cmd |-> CurrentCmd,
                                                 content |-> out.content])
                          /\ pc' = "writing"
                          /\ UNCHANGED <<cIdx, result>>
  /\ UNCHANGED <<input, store, cancelled, parsed, resolving, settled, tIdx>>
  /\ UNCHANGED <<engVars, memVars, prsVars, wrtVars, pnlVars>>

\* readFile returns and the engine does not: the call never returns
EngineHangs ==
  /\ pc = "reading"
  /\ ~ApplyEolPolicy(FileDataRead, input.mixedEolPolicy).skip
  /\ EngineDiverges(parsed[CurrentCmd].instruction)
  /\ pc' = "hung"
  /\ UNCHANGED <<input, store, cancelled, parsed, resolving, settled, tIdx, cIdx,
                 inflight, result, log>>
  /\ UNCHANGED <<engVars, memVars, prsVars, wrtVars, pnlVars>>

\* writeFile throws (fileHelpers.ts line 178: the edit was not applied)
WriteFails ==
  /\ pc = "writing"
  /\ Finish(ErrorResult(parsed[CurrentCmd].instruction, input.mode), TRUE,
            inflight.rawBefore, store[CurrentTarget].raw, "failed")
  /\ log' = Append(log, [ev |-> "failed", target |-> CurrentTarget,
                         cmd |-> CurrentCmd, content |-> <<>>])
  /\ UNCHANGED <<input, store, cancelled, parsed, resolving, settled, tIdx>>
  /\ UNCHANGED <<engVars, memVars, prsVars, wrtVars, pnlVars>>

\* writeFile returns: the document holds the text of writeFilePreservingFormat
WriteReturns ==
  /\ pc = "writing"
  /\ LET final == FinalContent(inflight.content, inflight.info)
     IN  /\ store' = [store EXCEPT ![CurrentTarget].raw = final]
         /\ log' = Append(log, [ev |-> "stored", target |-> CurrentTarget,
                                cmd |-> CurrentCmd, content |-> final])
         /\ Finish(EngineResult(parsed[CurrentCmd].instruction, input.mode, "ok"), TRUE,
                   inflight.rawBefore, final, "ok")
  /\ UNCHANGED <<input, cancelled, parsed, resolving, settled, tIdx>>
  /\ UNCHANGED <<engVars, memVars, prsVars, wrtVars, pnlVars>>

\* the caller's CancellationToken is cancelled while the call runs.  The token
\* is read in the pattern loop of resolveTargets and at the head of the loop
\* over the targets only; a cancellation at any other point is the same as
\* one at the next of these two
Cancel ==
  /\ pc \in {"resolving", "target"}
  /\ ~cancelled
  /\ cancelled' = TRUE
  /\ UNCHANGED <<input, pc, store, parsed, resolving, settled, tIdx, cIdx, inflight,
                 result, log>>
  /\ UNCHANGED <<engVars, memVars, prsVars, wrtVars, pnlVars>>

OrchNext ==
  \/ Begin
  \/ \E i \in 1..NumCommands : ResolveStep(i)
  \/ HandleParseErrors
  \/ TargetCheck
  \/ NextCommand
  \/ ReadFails
  \/ ReadReturns
  \/ EngineHangs
  \/ WriteFails
  \/ WriteReturns
  \/ Cancel

\* --------------------------------------------- in-memory apply (apply)
\* longest buffer handed to the in-memory apply
MaxMemBuf == 3

\* the commands a call of apply is given
MemCommands ==
  { Command("replace block", ExactBlock(<<"A">>), ExactBlock(<<"B">>), <<>>),
    Command("delete block", ExactBlock(<<"B">>), NoBlock, <<>>),
    Command("insert after", ExactBlock(<<"A">>), ExactBlock(<<"B">>), <<>>),
    Command("insert at end", NoBlock, ExactBlock(<<"A">>), <<>>),
    Command("replace block", BoundaryBlock(<<"A">>, <<"B">>), ExactBlock(<<>>), <<>>),
    Command("rename block", ExactBlock(<<"A">>), ExactBlock(<<"B">>), <<>>) }

MemBuffers == StringsUpTo(EngChars, MaxMemBuf) \cup {<<"A", CR, NL, "A">>}

EmptyMemResult ==
  [operations |-> <<>>, successful |-> 0, skipped |-> 0, errors |-> 0,
   totalBlocks |-> 0, totalOperations |-> 0, content |-> <<>>]

MemInputs ==
  /\ aCommands \in SeqsUpTo(MemCommands, MaxCmds)
  /\ aInput \in MemBuffers
  /\ aMode \in {"apply", "preview"}
  /\ aPc = "start"
  /\ aIdx = 0
  /\ aContent = <<>>
  /\ aResult = [EmptyMemResult EXCEPT !.content = aInput]

\* BlockEditor.guessOperationType on the text of a command whose block
\* bodies hold none of the three words
guessOperationType(command) ==
  IF command.opLine = "replace block" THEN "replace"
  ELSE IF command.opLine = "delete block" THEN "delete"
  ELSE IF command.opLine \in {"insert", "insert before", "insert after",
                              "insert at start", "insert at end"} THEN "insert"
  ELSE "UNKNOWN"

\* an OperationResult of the in-memory apply
MemOutcome(operationType, mode, kind, reasonCode, blocks) ==
  [operationType |-> operationType, status |-> StatusIn(mode, kind),
   isPreview |-> mode = "preview", reasonCode |-> reasonCode, blocksFound |-> blocks]

\* handleParseError (lines 771-786)
MemParseError(res, mode) ==
  [res EXCEPT !.operations = Append(@, MemOutcome("UNKNOWN", mode, "error", "none", 0)),
              !.errors = @ + 1]

\* handleBlockNotFound (lines 788-806)
MemBlockNotFound(res, command, mode) ==
  [res EXCEPT !.operations = Append(@, MemOutcome(guessOperationType(command), mode,
                                                  "skip", "NOT_FOUND", 0)),
              !.skipped = @ + 1]

\* handleGeneralError (lines 808-825)
MemGeneralError(res, command, mode) ==
  [res EXCEPT !.operations = Append(@, MemOutcome(guessOperationType(command), mode,
                                                  "error", "none", 0)),
              !.errors = @ + 1]

\* processSingleCommand lines 473-512, given the number of blocks found and
\* what applyInstruction returned or threw: the new currentContent and
\* result; thrown says what the call threw ("none": it returned)
CountAndPush(instruction, currentContent, mode, res, blocks, out) ==
  LET kind == IF out.status = "ok" THEN "success"
              ELSE IF out.status = "notfound" THEN "skip" ELSE "error"
      reason == IF out.status = "notfound" THEN "NOT_FOUND" ELSE "none"
      bump == IF out.status = "ok" THEN "successful"
              ELSE IF out.status = "notfound" THEN "skipped" ELSE "errors"
      counted == [res EXCEPT !.totalBlocks = @ + blocks, !.totalOperations = @ + blocks]
  IN  IF mode = "preview" \/ out.status = "ok"
      THEN [thrown |-> "none",
            content |-> IF out.status = "ok" THEN out.content ELSE currentContent,
            res |-> [counted EXCEPT
                       !.operations = Append(@, MemOutcome(instruction.operation, mode,
                                                           kind, reason, blocks)),
                       ![bump] = @ + blocks]]
      ELSE [thrown |-> out.status, content |-> currentContent, res |-> counted]

\* processSingleCommand (lines 464-513) when findAllBlocks returns
processSingleCommand(instruction, currentContent, mode, res) ==
  CountAndPush(instruction, currentContent, mode, res,
               Len(findAllBlocks(currentContent, instruction.targetBlock)),
               applyInstruction(instruction, currentContent))

\* apply lines 193-199: the early return, or the start of the loop
MemBegin ==
  /\ aPc = "start"
  /\ IF Len(aCommands) = 0
     THEN /\ aPc' = "done"
          /\ UNCHANGED <<aIdx, aContent>>
     ELSE /\ aContent' = normalizeLineEndings(aInput)
          /\ aIdx' = 1
          /\ aPc' = "loop"
  /\ UNCHANGED <<aCommands, aInput, aMode, aResult>>
  /\ UNCHANGED <<engVars, orchVars, prsVars, wrtVars, pnlVars>>

\* processSingleCommand calls findAllBlocks on the target block first
\* (line 472), also on the placeholder target of insert at start / at end
MemDiverges(instruction) == ExactDiverges(instruction.targetBlock)

\* apply lines 201-216: one command of the loop
MemCommand ==
  /\ aPc = "loop"
  /\ aIdx <= Len(aCommands)
  /\ LET command == aCommands[aIdx]
         r == parse(command)
     IN  IF ~r.ok
         THEN /\ aResult' = MemParseError(aResult, aMode)
              /\ UNCHANGED aContent
         ELSE /\ ~MemDiverges(r.instruction)
              /\ LET p == processSingleCommand(r.instruction, aContent, aMode, aResult)
                 IN  /\ aContent' = p.content
                     /\ aResult' = IF p.thrown = "none" THEN p.res
                                   ELSE IF p.thrown = "notfound"
                                   THEN MemBlockNotFound(p.res, command, aMode)
                                   ELSE MemGeneralError(p.res, command, aMode)
  /\ aIdx' = aIdx + 1
  /\ UNCHANGED <<aPc, aCommands, aInput, aMode>>
  /\ UNCHANGED <<engVars, orchVars, prsVars, wrtVars, pnlVars>>

\* findAllBlocks does not return: neither does apply
MemHangs ==
  /\ aPc = "loop"
  /\ aIdx <= Len(aCommands)
  /\ parse(aCommands[aIdx]).ok
  /\ MemDiverges(parse(aCommands[aIdx]).instruction)
  /\ aPc' = "hung"
  /\ UNCHANGED <<aCommands, aInput, aMode, aIdx, aContent, aResult>>
  /\ UNCHANGED <<engVars, orchVars, prsVars, wrtVars, pnlVars>>

\* apply lines 218-221: the return
MemReturn ==
  /\ aPc = "loop"
  /\ aIdx > Len(aCommands)
  /\ aResult' = [aResult EXCEPT !.content = aContent]
  /\ aPc' = "done"
  /\ UNCHANGED <<aCommands, aInput, aMode, aIdx, aContent>>
  /\ UNCHANGED <<engVars, orchVars, prsVars, wrtVars, pnlVars>>

MemNext ==
  \/ MemBegin
  \/ MemCommand
  \/ MemHangs
  \/ MemReturn

\* no call of apply is made
MemIdle ==
  /\ aPc = "idle"
  /\ aCommands = <<>>
  /\ aInput = <<>>
  /\ aMode = "preview"
  /\ aIdx = 0
  /\ aContent = <<>>
  /\ aResult = EmptyMemResult

\* --------------------------------------- command text (DSLParser.parse)
\* the marker line that splits a block body into two patterns
DSL_TO_MARKER == "---TO---"

\* the lines of a command text; each is [kind, arg] and stands for the text
\* Render gives it
OpLine(words) == [kind |-> "op", arg |-> <<words>>]

BeginLine(id) == [kind |-> "begin", arg |-> id]

EndLine(id) == [kind |-> "end", arg |-> id]

ToLine == [kind |-> "to", arg |-> <<>>]

\* the marker with a blank on each side
PaddedToLine == [kind |-> "to", arg |-> <<" ">>]

WithLine == [kind |-> "with", arg |-> <<>>]

\* in files [...] with a well-formed list of patterns
ScopeLine(files) == [kind |-> "files", arg |-> files]

TextLine(chars) == [kind |-> "text", arg |-> chars]

BlankLine == TextLine(<<>>)

\* the text of a line: a sequence of characters, in which a keyword or a
\* marker (or its fixed part) counts as one character
Render(line) ==
  IF line.kind \in {"text", "op"} THEN line.arg
  ELSE IF line.kind = "to" THEN line.arg \o <<DSL_TO_MARKER>> \o line.arg
  ELSE IF line.kind = "begin"
  THEN (IF line.arg = <<>> THEN <<"---BEGIN---">>
        ELSE <<"---BEGIN:">> \o line.arg \o <<"---">>)
  ELSE IF line.kind = "end"
  THEN (IF line.arg = <<>> THEN <<"---END---">>
        ELSE <<"---END:">> \o line.arg \o <<"---">>)
  ELSE IF line.kind = "with" THEN <<"with">>
  ELSE <<"in files">> \o line.arg

RECURSIVE TrimStart(_)
TrimStart(text) ==
  IF text # <<>> /\ text[1] = " " THEN TrimStart(Tail(text)) ELSE text

RECURSIVE TrimEnd(_)
TrimEnd(text) ==
  IF text # <<>> /\ text[Len(text)] = " "
  THEN TrimEnd(SubSeq(text, 1, Len(text) - 1)) ELSE text

\* String.prototype.trim
Trim(text) == TrimEnd(TrimStart(text))

RECURSIVE DropBlankStart(_)
DropBlankStart(lines) ==
  IF lines # <<>> /\ Trim(Render(lines[1])) = <<>>
  THEN DropBlankStart(Tail(lines)) ELSE lines

RECURSIVE DropBlankEnd(_)
DropBlankEnd(lines) ==
  IF lines # <<>> /\ Trim(Render(lines[Len(lines)])) = <<>>
  THEN DropBlankEnd(SubSeq(lines, 1, Len(lines) - 1)) ELSE lines

\* parse line 222: dslContent.trim().split('\n'); the blank lines at the two
\* ends go, and the empty text is one empty line
TrimText(text) ==
  LET kept == DropBlankEnd(DropBlankStart(text))
  IN  IF kept = <<>> THEN <<BlankLine>> ELSE kept

\* the trimmed text of the line at 0-based index idx ('' when there is none)
TrimmedAt(lines, idx) ==
  IF idx < Len(lines) THEN Trim(Render(lines[idx + 1])) ELSE <<>>

\* \w of the regular expression, as far as the ids tried need it
WordChars == {"a", "b", "c", "_"}

\* DSL_BEGIN_RE (line 217) on a trimmed line: /^---BEGIN(:[\w_]+)?---$/
DSL_BEGIN_RE(line) ==
  IF line = <<"---BEGIN---">> THEN [matched |-> TRUE, id |-> <<>>]
  ELSE IF /\ Len(line) >= 3
          /\ line[1] = "---BEGIN:"
          /\ line[Len(line)] = "---"
          /\ \A i \in 2..(Len(line) - 1) : line[i] \in WordChars
  THEN [matched |-> TRUE, id |-> SubSeq(line, 2, Len(line) - 1)]
  ELSE [matched |-> FALSE, id |-> <<>>]

\* a ParseError: line is the line number the error carries
PrsFail(error, line) ==
  [ok |-> FALSE, error |-> error, line |-> line, nextIdx |-> 0,
   instruction |-> Instruction("none", "none", NoBlock, NoBlock, NoScope)]

\* DSLParser.parseOperation / parseInsertPosition on lines[idx]
parseOperationAt(lines, idx) ==
  LET firstLine == TrimmedAt(lines, idx)
      op == parseOperation(firstLine[1])
  IN  IF firstLine = <<>>
      THEN [error |-> "empty_operation", line |-> idx, operation |-> "none",
            insertPosition |-> "none", nextIdx |-> idx]
      ELSE IF op.ok
      THEN [error |-> "none", line |-> 0, operation |-> op.operation,
            insertPosition |-> op.insertPosition, nextIdx |-> idx + 1]
      ELSE [error |-> IF firstLine[1] = "insert" THEN "invalid_insert_position"
                      ELSE "unknown_operation",
            line |-> idx, operation |-> "none", insertPosition |-> "none",
            nextIdx |-> idx]

\* what a block parser gives when it throws
BlockFail(error, line) ==
  [error |-> error, line |-> line, block |-> NoBlock, nextIdx |-> 0]

\* DSLParser.extractMultilineContent
extractMultilineContent(lines, startIdx) ==
  LET beginLine == TrimmedAt(lines, startIdx)
      beginMatch == DSL_BEGIN_RE(beginLine)
      endMarker == Render(EndLine(beginMatch.id))
      closers == {k \in (startIdx + 1)..(Len(lines) - 1) : TrimmedAt(lines, k) = endMarker}
  IN  IF beginLine = <<>>
      THEN [error |-> "invalid_line", line |-> startIdx, content |-> <<>>, endIdx |-> 0]
      ELSE IF ~beginMatch.matched
      THEN [error |-> "invalid_begin", line |-> startIdx, content |-> <<>>, endIdx |-> 0]
      ELSE IF closers = {}
      THEN [error |-> "unclosed", line |-> startIdx, content |-> <<>>, endIdx |-> 0]
      ELSE [error |-> "none", line |-> 0,
            content |-> Join([i \in 1..(Min(closers) - startIdx - 1) |->
                                Render(lines[startIdx + 1 + i])]),
            endIdx |-> Min(closers) + 1]

RECURSIVE SplitBy(_, _, _)
\* String.prototype.split(sep), from offset from on
SplitBy(text, sep, from) ==
  IF IndexOf(text, sep, from) = -1 THEN <<Substring(text, from, Len(text))>>
  ELSE <<Substring(text, from, IndexOf(text, sep, from))>>
         \o SplitBy(text, sep, IndexOf(text, sep, from) + Len(sep))

\* parseBlock lines 362-401: the parts the body falls into at the marker;
\* no part when the body is not taken for a Boundary block
ToParts(content) ==
  LET toMarker == <<NL, DSL_TO_MARKER, NL>>
      toMarkerAtStart == <<DSL_TO_MARKER, NL>>
      toMarkerAtEnd == <<NL, DSL_TO_MARKER>>
      contentLines == Split(content)
      marked == {i \in 1..Len(contentLines) : Trim(contentLines[i]) = <<DSL_TO_MARKER>>}
  IN  IF IndexOf(content, toMarker, 0) # -1 THEN SplitBy(content, toMarker, 0)
      ELSE IF Substring(content, 0, 2) = toMarkerAtStart
      THEN << <<>>, Substring(content, 2, Len(content)) >>
      ELSE IF Len(content) >= 2 /\ Substring(content, Len(content) - 2, Len(content)) = toMarkerAtEnd
      THEN << Substring(content, 0, Len(content) - 2), <<>> >>
      ELSE IF content = <<DSL_TO_MARKER>> THEN << <<>>, <<>> >>
      ELSE IF marked # {}
      THEN << Join(Slice(contentLines, 0, Min(marked) - 1)),
              Join(Slice(contentLines, Min(marked), Len(contentLines))) >>
      ELSE <<>>

\* parseBlock lines 403-425: the block built from a body
BlockOf(content) ==
  IF Len(ToParts(content)) = 2
  THEN BoundaryBlock(ToParts(content)[1], ToParts(content)[2])
  ELSE ExactBlock(content)

\* DSLParser.parseBlock
parseBlock(lines, startIdx) ==
  LET ex == extractMultilineContent(lines, startIdx)
  IN  IF startIdx >= Len(lines) THEN BlockFail("expected_begin", startIdx)
      ELSE IF ex.error # "none" THEN BlockFail(ex.error, ex.line)
      ELSE [error |-> "none", line |-> 0, block |-> BlockOf(ex.content),
            nextIdx |-> ex.endIdx]

\* DSLParser.parseTargetBlock
parseTargetBlock(lines, currentIdx, operation, insertPosition) ==
  IF operation = "insert" /\ insertPosition \in {"at_start", "at_end"}
  THEN [error |-> "none", line |-> 0, block |-> PlaceholderBlock, nextIdx |-> currentIdx]
  ELSE parseBlock(lines, currentIdx)

\* DSLParser.parseReplacementBlock; NoBlock is undefined
parseReplacementBlock(lines, currentIdx, operation) ==
  IF operation \notin {"replace", "insert"}
  THEN [error |-> "none", line |-> 0, block |-> NoBlock, nextIdx |-> currentIdx]
  ELSE IF currentIdx >= Len(lines) \/ TrimmedAt(lines, currentIdx) = <<>>
          \/ TrimmedAt(lines, currentIdx)[1] # "with"
  THEN BlockFail("missing_with", currentIdx)
  ELSE parseBlock(lines, currentIdx + 1)

RECURSIVE ScopeLoopAt(_, _, _)
\* the while loop of parseScope from lines[idx] on
ScopeLoopAt(lines, idx, scope) ==
  IF idx < Len(lines) /\ lines[idx + 1].kind = "files"
  THEN ScopeLoopAt(lines, idx + 1, [present |-> TRUE, files |-> lines[idx + 1].arg])
  ELSE [scope |-> scope, nextIdx |-> idx]

\* DSLParser.parseScope on the lines of a text
parseScopeAt(lines, startIdx) == ScopeLoopAt(lines, startIdx, NoScope)

\* DSLParser.validateInstruction: the error it throws, "none" when it returns
validateInstruction(instruction) ==
  IF instruction.operation \in {"replace", "insert"}
       /\ instruction.replacementBlock.blockType = "none"
  THEN "requires_with"
  ELSE IF instruction.operation = "delete" /\ instruction.replacementBlock.blockType # "none"
  THEN "delete_with"
  ELSE IF instruction.operation = "insert" /\ instruction.insertPosition = "none"
  THEN "requires_position"
  ELSE "none"

\* parse lines 245-256, given what the four parsers returned: nextIdx is
\* the index the scope parser stopped at
Assemble(op, tgt, rep, sc) ==
  IF validateInstruction(Instruction(op.operation, op.insertPosition, tgt.block,
                                     rep.block, sc.scope)) # "none"
  THEN PrsFail(validateInstruction(Instruction(op.operation, op.insertPosition, tgt.block,
                                               rep.block, sc.scope)), 0)
  ELSE [ok |-> TRUE, error |-> "none", line |-> 0, nextIdx |-> sc.nextIdx,
        instruction |-> Instruction(op.operation, op.insertPosition, tgt.block,
                                    rep.block, sc.scope)]

\* parse lines 228-240, from the operation on
ParseBlocks(lines, op) ==
  LET tgt == parseTargetBlock(lines, op.nextIdx, op.operation, op.insertPosition)
      rep == parseReplacementBlock(lines, tgt.nextIdx, op.operation)
  IN  IF tgt.error # "none" THEN PrsFail(tgt.error, tgt.line)
      ELSE IF rep.error # "none" THEN PrsFail(rep.error, rep.line)
      ELSE Assemble(op, tgt, rep, parseScopeAt(lines, rep.nextIdx))

\* DSLParser.parse on the lines of a command text
parseText(text) ==
  LET op == parseOperationAt(TrimText(text), 0)
  IN  IF op.error # "none" THEN PrsFail(op.error, op.line)
      ELSE ParseBlocks(TrimText(text), op)

\* ------------------------------------------------ parser specification
\* longest block body made of text and marker lines only
MaxBody == 5

\* longest block body over all the kinds of body line
MaxMixedBody == 2

\* ids of the BEGIN / END markers tried (none, word characters, with a hyphen)
PrsIds == {<<>>, <<"a">>, <<"a", "-", "b">>}

PrsOpLines ==
  {OpLine(w) : w \in {"replace block", "delete block", "insert before",
                      "insert at end", "insert", "rename block"}}

Bodies ==
  SeqsUpTo({TextLine(<<"A">>), ToLine}, MaxBody)
    \cup SeqsUpTo({TextLine(<<"A">>), ToLine, PaddedToLine, EndLine(<<>>),
                   EndLine(<<"c">>), BlankLine}, MaxMixedBody)

\* a block: BEGIN, a body, and its END or nothing
BlocksOver(bodies) ==
  UNION {{<<BeginLine(id)>> \o b \o c : b \in bodies, c \in {<<EndLine(id)>>, <<>>}} :
           id \in PrsIds}

AllBlocks == BlocksOver(Bodies)

\* a few target parts: none, closed blocks, an unclosed one
SomeTargets ==
  { <<>>,
    <<BeginLine(<<>>), TextLine(<<"A">>), EndLine(<<>>)>>,
    <<BeginLine(<<"a", "-", "b">>), TextLine(<<"A">>), EndLine(<<"a", "-", "b">>)>>,
    <<BeginLine(<<"a">>), TextLine(<<"A">>)>> }

\* a few `with` parts: none, a literal body, a body with the marker
SomeWiths ==
  { <<>>,
    <<WithLine, BeginLine(<<>>), TextLine(<<"B">>), EndLine(<<>>)>>,
    <<WithLine, BeginLine(<<>>), TextLine(<<"A">>), ToLine, TextLine(<<"B">>),
      EndLine(<<>>)>> }

\* what may follow the blocks
SomeTails ==
  { <<>>, <<ScopeLine(<<"f1">>)>>, <<ScopeLine(<<"f1">>), ScopeLine(<<>>)>>,
    <<BlankLine>>, <<TextLine(<<"A">>)>> }

\* a full-line comment
CommentLine == TextLine(<<"/", "/">>)

\* text with line x put in front of its line at position k (at the end for
\* k = Len(text) + 1)
InsertLineAt(text, k, x) == SubSeq(text, 1, k - 1) \o <<x>> \o SubSeq(text, k, Len(text))

\* commands with one comment line at any place: in front of the operation
\* line, inside a block, between the blocks, in front of `in files`, at the end
CommentedTexts ==
  UNION {{InsertLineAt(<<o>> \o t \o w \o tail, k, CommentLine) :
            k \in 1..(Len(<<o>> \o t \o w \o tail) + 1)} :
           o \in PrsOpLines, t \in SomeTargets, w \in SomeWiths,
           tail \in {<<>>, <<ScopeLine(<<"f1">>)>>}}

\* the command texts tried
PrsTexts ==
  {<<o>> \o t \o w : o \in PrsOpLines, t \in AllBlocks, w \in SomeWiths}
    \cup {<<o>> \o t \o <<WithLine>> \o b :
            o \in PrsOpLines, t \in SomeTargets, b \in AllBlocks}
    \cup {lead \o <<o>> \o t \o w \o tail :
            lead \in {<<>>, <<BlankLine>>}, o \in PrsOpLines, t \in SomeTargets,
            w \in SomeWiths, tail \in SomeTails}
    \cup {<<>>, <<BlankLine>>, <<TextLine(<<"A">>)>>}
    \cup CommentedTexts

NoParse == PrsFail("none", 0)

PrsInputs ==
  /\ pPhase = "input"
  /\ pText \in PrsTexts
  /\ pOut = NoParse

\* DSLParser.parse(pText) returns an Instruction
PrsReturns ==
  /\ pPhase = "input"
  /\ parseText(pText).ok
  /\ pOut' = parseText(pText)
  /\ pPhase' = "returned"
  /\ UNCHANGED pText
  /\ UNCHANGED <<engVars, orchVars, memVars, wrtVars, pnlVars>>

\* DSLParser.parse(pText) throws a ParseError
PrsThrows ==
  /\ pPhase = "input"
  /\ ~parseText(pText).ok
  /\ pOut' = parseText(pText)
  /\ pPhase' = "thrown"
  /\ UNCHANGED pText
  /\ UNCHANGED <<engVars, orchVars, memVars, wrtVars, pnlVars>>

PrsNext == PrsReturns \/ PrsThrows

\* ------------------------------------------------- write-back specification
\* longest stored text and longest mutation result tried
MaxWrt == 3

WrtChars == {"A", NL}

\* the stored documents tried: a text in one line-ending convention, tagged
\* with it
WrtFiles ==
  {[raw |-> ReplaceLf(t, 1, EolText(eol)), eol |-> eol] :
     t \in StringsUpTo(WrtChars, MaxWrt), eol \in {"LF", "CRLF"}}

NoInfo == [lineEnding |-> "LF", endsWithNewline |-> FALSE, isMixed |-> FALSE,
           predominant |-> "LF"]

\* a target and a mutation result (what applyInstruction returned for the
\* normalised content, lines joined by \n)
WrtInputs ==
  /\ wPhase = "start"
  /\ wFile \in WrtFiles
  /\ wContent \in StringsUpTo(WrtChars, MaxWrt)
  /\ wInfo = NoInfo
  /\ wStored = wFile.raw

\* the read of the target: readFile(fileUri)
WrtRead ==
  /\ wPhase = "start"
  /\ wInfo' = readFileWithInfo(wFile).info
  /\ wPhase' = "read"
  /\ UNCHANGED <<wFile, wContent, wStored>>
  /\ UNCHANGED <<engVars, orchVars, memVars, prsVars, pnlVars>>

\* executeFileOperationUri line 634, writeFilePreservingFormat lines 148-182:
\* the edit replaces the whole document by the final content and saves it
WrtWrite ==
  /\ wPhase = "read"
  /\ wStored' = FinalContent(wContent, wInfo)
  /\ wPhase' = "written"
  /\ UNCHANGED <<wFile, wContent, wInfo>>
  /\ UNCHANGED <<engVars, orchVars, memVars, prsVars, pnlVars>>

WrtNext == WrtRead \/ WrtWrite

\* no write-back is made
WrtIdle ==
  /\ wPhase = "idle"
  /\ wFile = [raw |-> <<>>, eol |-> "LF"]
  /\ wContent = <<>>
  /\ wInfo = NoInfo
  /\ wStored = <<>>

\* ------------------------------------------------------- command splitter
\* the submitted text is a sequence of lines as the parser's; a separator
\* line is a text line made of the tokens below
NEXT_BLOCK == "---NEXT_BLOCK---"

NEXT_BLOCK_ID == "---NEXT_BLOCK:"

DigitChars == <<"0", "1", "2", "3", "4", "5", "6", "7", "8", "9">>

\* n.toString().padStart(4, '0'), for the numbers below ten
padStart4(n) == <<"0", "0", "0", DigitChars[n + 1]>>

\* the separator line without an ID, and with one
NextLine(id) ==
  IF id = <<>> THEN TextLine(<<NEXT_BLOCK>>)
  ELSE TextLine(<<NEXT_BLOCK_ID>> \o id \o <<"---">>)

\* \w and [\w-] of the panel's regular expressions
PanelWordChars == WordChars \cup {DigitChars[d] : d \in DOMAIN DigitChars}

RECURSIVE TagChars(_, _, _)
\* the replace callback of _addIdsToCommands over the characters of a line:
\* [chars, blockIndex] after the characters from position i on
TagChars(chars, i, blockIndex) ==
  IF i > Len(chars) THEN [chars |-> <<>>, blockIndex |-> blockIndex]
  ELSE IF chars[i] = NEXT_BLOCK
  THEN LET rest == TagChars(chars, i + 1, blockIndex + 1)
       IN  [chars |-> <<NEXT_BLOCK_ID>> \o padStart4(blockIndex + 1) \o <<"---">>
                        \o rest.chars,
            blockIndex |-> rest.blockIndex]
  ELSE LET rest == TagChars(chars, i + 1, blockIndex)
       IN  [chars |-> <<chars[i]>> \o rest.chars, blockIndex |-> rest.blockIndex]

RECURSIVE TagLines(_, _, _)
TagLines(lines, i, blockIndex) ==
  IF i > Len(lines) THEN <<>>
  ELSE IF lines[i].kind = "text"
  THEN LET tagged == TagChars(lines[i].arg, 1, blockIndex)
       IN  <<TextLine(tagged.chars)>> \o TagLines(lines, i + 1, tagged.blockIndex)
  ELSE <<lines[i]>> \o TagLines(lines, i + 1, blockIndex)

\* _addIdsToCommands: commandsText.replace(/---NEXT_BLOCK---/g, ...), over
\* the whole text
addIdsToCommands(commandsText) == TagLines(commandsText, 1, 0)

\* BEGIN_RE of _parseCommandBlocks on a trimmed line:
\* /^---BEGIN(:[\w-]+)?---$/
PANEL_BEGIN_RE(line) ==
  IF line = <<"---BEGIN---">> THEN [matched |-> TRUE, id |-> <<>>]
  ELSE IF /\ Len(line) >= 3
          /\ line[1] = "---BEGIN:"
          /\ line[Len(line)] = "---"
          /\ \A i \in 2..(Len(line) - 1) : line[i] \in PanelWordChars \cup {"-"}
  THEN [matched |-> TRUE, id |-> SubSeq(line, 2, Len(line) - 1)]
  ELSE [matched |-> FALSE, id |-> <<>>]

\* `---END${beginMatch[1] ?? ''}---`
PanelEndMarker(id) ==
  IF id = <<>> THEN <<"---END---">> ELSE <<"---END:">> \o id \o <<"---">>

\* trimmedLine.startsWith('---NEXT_BLOCK') && trimmedLine.endsWith('---')
IsSeparator(line) ==
  /\ line # <<>>
  /\ line[1] \in {NEXT_BLOCK, NEXT_BLOCK_ID}
  /\ line[Len(line)] \in {NEXT_BLOCK, "---", "---BEGIN---", "---END---", DSL_TO_MARKER}

\* trimmedLine.match(/---NEXT_BLOCK:(\w+)---/): the first place where the
\* expression matches
SeparatorId(line) ==
  LET WordRun(i, j) == j > i + 1 /\ \A k \in (i + 1)..(j - 1) : line[k] \in PanelWordChars
      hits == {p \in (DOMAIN line) \X (DOMAIN line) :
                 /\ line[p[1]] = NEXT_BLOCK_ID /\ line[p[2]] = "---"
                 /\ WordRun(p[1], p[2])}
  IN  IF hits = {} THEN [matched |-> FALSE, id |-> <<>>]
      ELSE LET first == CHOOSE p \in hits : \A q \in hits : p[1] <= q[1]
           IN  [matched |-> TRUE, id |-> SubSeq(line, first[1] + 1, first[2] - 1)]

\* currentContent.join('\n').trim(), as lines: the blank lines at the two
\* ends go, and so do the blanks in front of the first line and after the last
TrimContent(lines) ==
  LET kept == DropBlankEnd(DropBlankStart(lines))
      TrimmedFirst(ls) ==
        IF Render(ls[1]) = TrimStart(Render(ls[1])) THEN ls
        ELSE <<TextLine(TrimStart(Render(ls[1])))>> \o Tail(ls)
      TrimmedLast(ls) ==
        IF Render(ls[Len(ls)]) = TrimEnd(Render(ls[Len(ls)])) THEN ls
        ELSE SubSeq(ls, 1, Len(ls) - 1) \o <<TextLine(TrimEnd(Render(ls[Len(ls)])))>>
  IN  IF kept = <<>> THEN <<>> ELSE TrimmedLast(TrimmedFirst(kept))

\* blocks.push({ id: currentId, content }) when the content is not empty
PushBlock(blocks, currentId, currentContent) ==
  LET blockContent == TrimContent(currentContent)
  IN  IF blockContent # <<>>
      THEN Append(blocks, [id |-> currentId, content |-> blockContent])
      ELSE blocks

RECURSIVE SplitLoop(_, _, _, _, _, _, _)
\* the loop of _parseCommandBlocks from line i (1-based) on, and the flush of
\* the tail
SplitLoop(lines, i, blocks, currentId, currentContent, insideBlock, currentEndMarker) ==
  IF i > Len(lines) THEN PushBlock(blocks, currentId, currentContent)
  ELSE
    LET line == lines[i]
        trimmedLine == Trim(Render(line))
        beginMatch == PANEL_BEGIN_RE(trimmedLine)
        idMatch == SeparatorId(trimmedLine)
        pushed == PushBlock(blocks, currentId, currentContent)
    IN  IF ~insideBlock
        THEN IF beginMatch.matched
             THEN SplitLoop(lines, i + 1, blocks, currentId,
                            Append(currentContent, line), TRUE,
                            PanelEndMarker(beginMatch.id))
             ELSE IF IsSeparator(trimmedLine)
             THEN SplitLoop(lines, i + 1, pushed,
                            IF idMatch.matched THEN idMatch.id
                            ELSE padStart4(Len(pushed)),
                            <<>>, FALSE, <<>>)
             ELSE SplitLoop(lines, i + 1, blocks, currentId,
                            Append(currentContent, line), FALSE, <<>>)
        ELSE SplitLoop(lines, i + 1, blocks, currentId,
                       Append(currentContent, line),
                       trimmedLine # currentEndMarker,
                       IF trimmedLine = currentEndMarker THEN <<>>
                       ELSE currentEndMarker)

\* _parseCommandBlocks: the blocks {id, content} of the text
parseCommandBlocks(content) ==
  SplitLoop(content, 1, <<>>, padStart4(0), <<>>, FALSE, <<>>)

\* ------------------------------------------------------ panel specification
\* most executeCommands requests of one behaviour
MaxRuns == 2

\* most writes of one apply pass
MaxWrites == 1

\* most messages waiting at the host
MaxQueue == 2

\* the texts the user enters: a lone separator (no command in it), one
\* command, two commands
PanelTexts ==
  { <<NextLine(<<>>)>>,
    <<OpLine("delete block"), BeginLine(<<>>), TextLine(<<"A">>), EndLine(<<>>)>>,
    <<OpLine("delete block"), BeginLine(<<>>), TextLine(<<"A">>), EndLine(<<>>),
      NextLine(<<>>),
      OpLine("delete block"), BeginLine(<<>>), TextLine(<<"B">>), EndLine(<<>>)>> }

\* a message between the webview and the host; run is the request the
\* message belongs to (0: none), which the message itself does not carry
Msg(type, run, value) == [type |-> type, run |-> run, value |-> value]

\* a run of _previewAndApply: its position, what the splitter returned, and
\* its history (preview completed, the answer to the analysis dialog, the
\* writes issued)
Run(runPc, blocks) ==
  [pc |-> runPc, commands |-> [k \in DOMAIN blocks |-> blocks[k].content],
   blockIds |-> [k \in DOMAIN blocks |-> blocks[k].id],
   previewed |-> FALSE, answer |-> "none", writes |-> 0]

\* answer?.title === 'Apply'
IsApplyAlways(answer) == TRUE

IsApply(answer) == answer = "Apply"

\* the synchronous loop of a findAll that does not return keeps the
\* extension host from running anything else
HostBlocked == \E r \in DOMAIN hRuns : hRuns[r].pc = "hung"

\* request r was posted and the host has not left its run (has not posted
\* processing:end for it)
InProgress(r) ==
  /\ r \in 1..vPosted
  /\ r \in DOMAIN hRuns => hRuns[r].pc # "done"

\* commands.trim() is not empty
HasContent(text) == TrimContent(text) # <<>>

\* setBusy with the timeout wrapper (lines 33-65, 305-317): the values of
\* isProcessing, applyButton.disabled and the armed timer
SetBusy(isBusy) ==
  /\ vBusy' = isBusy
  /\ vDisabled' = isBusy
  /\ vTimer' = isBusy

\* the click handler of the Apply button (lines 82-111)
ClickHandler ==
  IF vBusy THEN UNCHANGED <<vBusy, vDisabled, vTimer, vPosted, toHost>>
  ELSE IF HasContent(vInput)
  THEN /\ SetBusy(TRUE)
       /\ vPosted' = vPosted + 1
       /\ toHost' = Append(toHost, Msg("executeCommands", vPosted + 1,
                                       TrimContent(vInput)))
  ELSE /\ toHost' = Append(toHost, Msg("showMessage", 0, <<>>))
       /\ UNCHANGED <<vBusy, vDisabled, vTimer, vPosted>>

\* the user clicks the Apply button (a disabled button takes no click)
VClick ==
  /\ ~vDisabled
  /\ vPosted < MaxRuns /\ Len(toHost) < MaxQueue
  /\ ClickHandler
  /\ UNCHANGED <<vInput, vClears, toView, hRuns, hClear>>
  /\ UNCHANGED <<engVars, orchVars, memVars, prsVars, wrtVars>>

\* the keydown handler (lines 116-124) on Ctrl/Cmd+Enter
VCtrlEnter ==
  /\ ~vDisabled /\ ~vBusy
  /\ vPosted < MaxRuns /\ Len(toHost) < MaxQueue
  /\ ClickHandler
  /\ UNCHANGED <<vInput, vClears, toView, hRuns, hClear>>
  /\ UNCHANGED <<engVars, orchVars, memVars, prsVars, wrtVars>>

\* the user edits the input (read-only while busy); the input listener
\* runs updateButtonState
VType(text) ==
  /\ ~vBusy
  /\ text # vInput
  /\ vInput' = text
  /\ vDisabled' = ~HasContent(text)
  /\ UNCHANGED <<vBusy, vTimer, vPosted, vClears, toHost, toView, hRuns, hClear>>
  /\ UNCHANGED <<engVars, orchVars, memVars, prsVars, wrtVars>>

\* the 30-second timer of the wrapper fires: originalSetBusy(false)
VTimeout ==
  /\ vTimer
  /\ vBusy' = FALSE
  /\ vDisabled' = FALSE
  /\ vTimer' = FALSE
  /\ UNCHANGED <<vInput, vPosted, vClears, toHost, toView, hRuns, hClear>>
  /\ UNCHANGED <<engVars, orchVars, memVars, prsVars, wrtVars>>

SetsBusy == {"processing:start", "showing:analysis", "applying:changes"}

ClearsBusy == {"processing:cancelled", "processing:error", "processing:complete",
               "processing:end", "commandsApplied", "error"}

\* the message listener of the webview (lines 128-233) on the oldest message
\* of the host
VReceive ==
  /\ toView # <<>>
  /\ LET message == Head(toView)
     IN  /\ toView' = Tail(toView)
         /\ IF message.type \in SetsBusy
            THEN SetBusy(TRUE) /\ UNCHANGED <<vInput, vClears, toHost>>
            ELSE IF message.type \in ClearsBusy
            THEN /\ SetBusy(FALSE)
                 /\ vClears' = IF vBusy /\ InProgress(vPosted)
                               THEN vClears \cup {[by |-> message.run, during |-> vPosted]}
                               ELSE vClears
                 /\ toHost' = IF message.type = "commandsApplied"
                              THEN Append(toHost, Msg("requestClearConfirmation", 0, <<>>))
                              ELSE toHost
                 /\ UNCHANGED vInput
            ELSE IF message.type \in {"updateCommands", "clearInput"}
            THEN /\ vInput' = message.value
                 /\ vDisabled' = IF vBusy THEN vDisabled ELSE ~HasContent(message.value)
                 /\ UNCHANGED <<vBusy, vTimer, vClears, toHost>>
            ELSE UNCHANGED <<vInput, vBusy, vDisabled, vTimer, vClears, toHost>>
  /\ UNCHANGED <<vPosted, hRuns, hClear>>
  /\ UNCHANGED <<engVars, orchVars, memVars, prsVars, wrtVars>>

\* the messages a run posts when it leaves _previewAndApply: those of its
\* branch, then processing:end of the finally block
Leaving(r, types) ==
  [k \in 1..(Len(types) + 1) |->
     IF k <= Len(types) THEN Msg(types[k], r, <<>>) ELSE Msg("processing:end", r, <<>>)]

\* onDidReceiveMessage, executeCommands: _previewAndApply lines 184-210 up to
\* its first await
HostExecuteCommands ==
  /\ toHost # <<>> /\ ~HostBlocked
  /\ Head(toHost).type = "executeCommands"
  /\ LET r == Len(hRuns) + 1
         commandsWithIds == addIdsToCommands(Head(toHost).value)
         commandBlocks == parseCommandBlocks(commandsWithIds)
         update == Msg("updateCommands", r, commandsWithIds)
     IN  \E workspaceFolders \in BOOLEAN :
           IF Len(commandBlocks) = 0 \/ ~workspaceFolders
           THEN /\ hRuns' = Append(hRuns, Run("done", commandBlocks))
                /\ toView' = toView \o <<update>> \o Leaving(r, <<>>)
           ELSE /\ hRuns' = Append(hRuns, Run("extract", commandBlocks))
                /\ toView' = Append(toView, update)
  /\ toHost' = Tail(toHost)
  /\ UNCHANGED <<vInput, vBusy, vDisabled, vTimer, vPosted, vClears, hClear>>
  /\ UNCHANGED <<engVars, orchVars, memVars, prsVars, wrtVars>>

\* onDidReceiveMessage, showMessage
HostShowMessage ==
  /\ toHost # <<>> /\ ~HostBlocked
  /\ Head(toHost).type = "showMessage"
  /\ toHost' = Tail(toHost)
  /\ UNCHANGED <<vInput, vBusy, vDisabled, vTimer, vPosted, vClears, toView, hRuns, hClear>>
  /\ UNCHANGED <<engVars, orchVars, memVars, prsVars, wrtVars>>

\* onDidReceiveMessage, requestClearConfirmation: the dialog opens
HostRequestClear ==
  /\ toHost # <<>> /\ ~HostBlocked
  /\ Head(toHost).type = "requestClearConfirmation"
  /\ toHost' = Tail(toHost)
  /\ hClear' = hClear + 1
  /\ UNCHANGED <<vInput, vBusy, vDisabled, vTimer, vPosted, vClears, toView, hRuns>>
  /\ UNCHANGED <<engVars, orchVars, memVars, prsVars, wrtVars>>

\* the Clear / Keep dialog is answered or dismissed
HostClearAnswer(answer) ==
  /\ hClear > 0 /\ ~HostBlocked
  /\ hClear' = hClear - 1
  /\ toView' = IF answer = "Clear" THEN Append(toView, Msg("clearInput", 0, <<>>))
               ELSE toView
  /\ UNCHANGED <<vInput, vBusy, vDisabled, vTimer, vPosted, vClears, toHost, hRuns>>
  /\ UNCHANGED <<engVars, orchVars, memVars, prsVars, wrtVars>>

\* onDidReceiveMessage, webviewReady
HostWebviewReady ==
  /\ toHost # <<>> /\ ~HostBlocked
  /\ Head(toHost).type = "webviewReady"
  /\ toHost' = Tail(toHost)
  /\ toView' = Append(toView, Msg("setDebugMode", 0, <<>>))
  /\ UNCHANGED <<vInput, vBusy, vDisabled, vTimer, vPosted, vClears, hRuns, hClear>>
  /\ UNCHANGED <<engVars, orchVars, memVars, prsVars, wrtVars>>

\* _previewAndApply lines 212-236: the files are extracted; without a file
\* and without an active editor the run ends, else the preview pass starts
HostExtracted(r) ==
  /\ hRuns[r].pc = "extract" /\ ~HostBlocked
  /\ \E hasTarget \in BOOLEAN :
       IF hasTarget
       THEN /\ hRuns' = [hRuns EXCEPT ![r].pc = "preview"]
            /\ UNCHANGED toView
       ELSE /\ hRuns' = [hRuns EXCEPT ![r].pc = "done"]
            /\ toView' = toView \o Leaving(r, <<>>)
  /\ UNCHANGED <<vInput, vBusy, vDisabled, vTimer, vPosted, vClears, toHost, hClear>>
  /\ UNCHANGED <<engVars, orchVars, memVars, prsVars, wrtVars>>

\* lines 234-254: the preview pass (its writer does nothing) returns, the
\* analysis is posted and the dialog opens
HostPreviewReturns(r) ==
  /\ hRuns[r].pc = "preview" /\ ~HostBlocked
  /\ hRuns' = [hRuns EXCEPT ![r].pc = "dialog", ![r].previewed = TRUE]
  /\ toView' = Append(toView, Msg("showing:analysis", r, <<>>))
  /\ UNCHANGED <<vInput, vBusy, vDisabled, vTimer, vPosted, vClears, toHost, hClear>>
  /\ UNCHANGED <<engVars, orchVars, memVars, prsVars, wrtVars>>

\* the preview pass enters a findAll that does not return
HostPreviewHangs(r) ==
  /\ hRuns[r].pc = "preview" /\ ~HostBlocked
  /\ hRuns' = [hRuns EXCEPT ![r].pc = "hung"]
  /\ UNCHANGED <<vInput, vBusy, vDisabled, vTimer, vPosted, vClears, toHost, toView, hClear>>
  /\ UNCHANGED <<engVars, orchVars, memVars, prsVars, wrtVars>>

\* lines 285-292: a pass rejects; the catch block and the finally block
HostThrows(r) ==
  /\ hRuns[r].pc \in {"preview", "apply"} /\ ~HostBlocked
  /\ hRuns' = [hRuns EXCEPT ![r].pc = "done"]
  /\ toView' = toView \o Leaving(r, <<"processing:error">>)
  /\ UNCHANGED <<vInput, vBusy, vDisabled, vTimer, vPosted, vClears, toHost, hClear>>
  /\ UNCHANGED <<engVars, orchVars, memVars, prsVars, wrtVars>>

\* lines 249-283: the analysis dialog is answered (Apply, Cancel) or
\* dismissed; on Apply the apply pass starts
HostAnswer(r, answer) ==
  /\ hRuns[r].pc = "dialog" /\ ~HostBlocked
  /\ IF IsApply(answer)
     THEN /\ hRuns' = [hRuns EXCEPT ![r].pc = "apply", ![r].answer = answer]
          /\ toView' = Append(toView, Msg("applying:changes", r, <<>>))
     ELSE /\ hRuns' = [hRuns EXCEPT ![r].pc = "done", ![r].answer = answer]
          /\ toView' = toView \o Leaving(r, <<"processing:cancelled">>)
  /\ UNCHANGED <<vInput, vBusy, vDisabled, vTimer, vPosted, vClears, toHost, hClear>>
  /\ UNCHANGED <<engVars, orchVars, memVars, prsVars, wrtVars>>

\* the apply pass calls writeFile (writeFilePreservingFormat) for a target
HostWrite(r) ==
  /\ hRuns[r].pc = "apply" /\ ~HostBlocked
  /\ hRuns[r].writes < MaxWrites
  /\ hRuns' = [hRuns EXCEPT ![r].writes = @ + 1]
  /\ UNCHANGED <<vInput, vBusy, vDisabled, vTimer, vPosted, vClears, toHost, toView, hClear>>
  /\ UNCHANGED <<engVars, orchVars, memVars, prsVars, wrtVars>>

\* lines 262-279: the apply pass returns; result.successful > 0 when a
\* write went through
HostApplyReturns(r) ==
  /\ hRuns[r].pc = "apply" /\ ~HostBlocked
  /\ hRuns' = [hRuns EXCEPT ![r].pc = "done"]
  /\ toView' = toView \o Leaving(r, IF hRuns[r].writes > 0
                                    THEN <<"commandsApplied">>
                                    ELSE <<"processing:complete">>)
  /\ UNCHANGED <<vInput, vBusy, vDisabled, vTimer, vPosted, vClears, toHost, hClear>>
  /\ UNCHANGED <<engVars, orchVars, memVars, prsVars, wrtVars>>

PnlNext ==
  \/ VClick
  \/ VCtrlEnter
  \/ \E text \in PanelTexts \cup {<<>>} : VType(text)
  \/ VTimeout
  \/ VReceive
  \/ HostExecuteCommands
  \/ HostShowMessage
  \/ HostRequestClear
  \/ \E answer \in {"Clear", "Keep"} : HostClearAnswer(answer)
  \/ HostWebviewReady
  \/ \E r \in DOMAIN hRuns :
       \/ HostExtracted(r)
       \/ HostPreviewReturns(r)
       \/ HostPreviewHangs(r)
       \/ HostThrows(r)
       \/ \E answer \in {"Apply", "Cancel", "dismissed"} : HostAnswer(r, answer)
       \/ HostWrite(r)
       \/ HostApplyReturns(r)

\* the panel after its construction and the webview after init(): the input
\* is empty, the button disabled by updateButtonState, webviewReady posted
PnlInputs ==
  /\ vInput = <<>>
  /\ vBusy = FALSE
  /\ vDisabled = TRUE
  /\ vTimer = FALSE
  /\ vPosted = 0
  /\ vClears = {}
  /\ toHost = <<Msg("webviewReady", 0, <<>>)>>
  /\ toView = <<>>
  /\ hRuns = <<>>
  /\ hClear = 0

\* there is no panel
PnlIdle ==
  /\ vInput = <<>>
  /\ vBusy = FALSE
  /\ vDisabled = TRUE
  /\ vTimer = FALSE
  /\ vPosted = 0
  /\ vClears = {}
  /\ toHost = <<>>
  /\ toView = <<>>
  /\ hRuns = <<>>
  /\ hClear = 0

\* ----------------------------------------------------- splitter specification
\* longest block body of the submitted texts tried
MaxSplitBody == 2

\* the body lines tried: a literal line, the separator without and with an ID
SplitBodies ==
  SeqsUpTo({TextLine(<<"A">>), NextLine(<<>>), NextLine(<<"7">>)}, MaxSplitBody)

\* one command with a closed block
SplitCommands ==
  UNION {{<<OpLine("delete block"), BeginLine(id)>> \o body \o <<EndLine(id)>> :
            body \in SplitBodies} : id \in {<<>>, <<"a">>}}

\* the texts submitted: one command, or two with a separator between them
SplitTexts ==
  SplitCommands
    \cup {c \o <<sep>> \o <<OpLine("delete block"), BeginLine(<<>>), TextLine(<<"B">>),
                          EndLine(<<>>)>> :
            c \in SplitCommands, sep \in {NextLine(<<>>), NextLine(<<"7">>)}}

\* the webview has posted executeCommands with its input (click handler,
\* lines 91-102) and the host has not handled it yet
SplitInputs ==
  /\ vInput \in SplitTexts
  /\ vBusy = TRUE
  /\ vDisabled = TRUE
  /\ vTimer = TRUE
  /\ vPosted = 1
  /\ vClears = {}
  /\ toHost = <<Msg("executeCommands", 1, TrimContent(vInput))>>
  /\ toView = <<>>
  /\ hRuns = <<>>
  /\ hClear = 0

\* the host tags and splits the text
SplitNext == HostExecuteCommands

\* no call of DSLParser.parse is made
PrsIdle ==
  /\ pPhase = "idle"
  /\ pText = <<>>
  /\ pOut = NoParse

\* the engine is not in use during a call of the orchestrator specification
EngIdle ==
  /\ ePhase = "idle"
  /\ eInstr = Instruction("none", "none", NoBlock, NoBlock, NoScope)
  /\ eBuf = <<>>
  /\ eSpans = <<>>
  /\ eOut = NoOut

\* no call of applyToFilesUri is made in the engine specification
OrchIdle ==
  /\ input = [commands |-> <<>>, fileUris |-> <<>>, mode |-> "preview",
              mixedEolPolicy |-> "warn", validatePaths |-> TRUE,
              store0 |-> CHOOSE st \in Stores : TRUE]
  /\ pc = "idle"
  /\ store = input.store0
  /\ cancelled = FALSE
  /\ parsed = <<>>
  /\ resolving = <<>>
  /\ settled = <<>>
  /\ tIdx = 0
  /\ cIdx = 0
  /\ inflight = Idle
  /\ result = EmptyResult
  /\ log = <<>>

Init == OrchInputs /\ EngIdle /\ MemIdle /\ PrsIdle /\ WrtIdle /\ PnlIdle

Next == OrchNext

Spec == Init /\ [][Next]_vars

EngInit == EngInputs /\ OrchIdle /\ MemIdle /\ PrsIdle /\ WrtIdle /\ PnlIdle

SpecEngine == EngInit /\ [][EngNext]_vars

MemInit == MemInputs /\ EngIdle /\ OrchIdle /\ PrsIdle /\ WrtIdle /\ PnlIdle

SpecApply == MemInit /\ [][MemNext]_vars

PrsInit == PrsInputs /\ EngIdle /\ OrchIdle /\ MemIdle /\ WrtIdle /\ PnlIdle

SpecParser == PrsInit /\ [][PrsNext]_vars

WrtInit == WrtInputs /\ EngIdle /\ OrchIdle /\ MemIdle /\ PrsIdle /\ PnlIdle

\* every target tried, read and written with every mutation result tried
SpecWrite == WrtInit /\ [][WrtNext]_vars

PnlInit == PnlInputs /\ EngIdle /\ OrchIdle /\ MemIdle /\ PrsIdle /\ WrtIdle

\* the webview and the host of one panel
SpecPanel == PnlInit /\ [][PnlNext]_vars

SplitInit == SplitInputs /\ EngIdle /\ OrchIdle /\ MemIdle /\ PrsIdle /\ WrtIdle

\* every text tried, tagged and split by the first step of _previewAndApply
SpecSplit == SplitInit /\ [][SplitNext]_vars

\* ------------------------------------------------ claims on the engine
\* 0-based offsets at which pat occurs in text
Occurrences(text, pat) ==
  {i \in 0..(Len(text) - Len(pat)) : Substring(text, i, i + Len(pat)) = pat}

\* 1-based line that holds the character at a 0-based offset (a line break
\* belongs to the line it ends)
LineOf(text, offset) == 1 + Cardinality({j \in 1..offset : text[j] = NL})

\* lines of the buffer touched by the characters startPos..endPos
CoveredLines(text, span) == LineOf(text, span.startPos)..LineOf(text, span.endPos)

RECURSIVE ExpectedExactReplace(_, _, _, _, _)
\* single-pass builder: copy the gap before match i, substitute the match
ExpectedExactReplace(text, spans, i, from, replacement) ==
  IF i > Len(spans) THEN Substring(text, from, Len(text))
  ELSE Substring(text, from, spans[i].startPos) \o replacement
         \o ExpectedExactReplace(text, spans, i + 1, spans[i].endPos + 1, replacement)

RECURSIVE ExpectedLineReplace(_, _, _, _, _, _)
\* single-pass builder over lines: copy the lines between the previous match
\* and match i, then the replacement's lines once for match i
ExpectedLineReplace(text, lines, spans, i, fromLine, replLines) ==
  IF i > Len(spans) THEN Slice(lines, fromLine - 1, Len(lines))
  ELSE LET first == LineOf(text, spans[i].startPos)
           last == LineOf(text, spans[i].endPos)
       IN  Slice(lines, fromLine - 1, first - 1) \o replLines
             \o ExpectedLineReplace(text, lines, spans, i + 1,
                                    IF last + 1 > fromLine THEN last + 1 ELSE fromLine,
                                    replLines)

ReplaceDone ==
  ePhase = "done" /\ eInstr.operation = "replace" /\ eOut.status = "ok"

\* C1: a Replace on a buffer with k >= 1 matches gives the buffer with each
\* match substituted exactly once by the replacement (Exact: the character
\* span; Boundary: the whole lines the span covers) and everything outside
\* the matches unchanged and in order, for every placement of the matches,
\* also when several matches share a line.
CexC1_ReplaceEachMatchOnce ==
  ReplaceDone =>
    eOut.content =
      IF eInstr.targetBlock.blockType = "exact"
      THEN ExpectedExactReplace(eBuf, eSpans, 1, 0, eInstr.replacementBlock.content)
      ELSE Join(ExpectedLineReplace(eBuf, Split(eBuf), eSpans, 1, 1,
                                    Split(eInstr.replacementBlock.content)))

DeleteExactDone ==
  /\ ePhase = "done" /\ eInstr.operation = "delete" /\ eOut.status = "ok"
  /\ eInstr.targetBlock.blockType = "exact"

\* the lines of the buffer that no match covers, in order
UncoveredLines(text, spans) ==
  LET lines == Split(text)
      covered == UNION {CoveredLines(text, spans[i]) : i \in 1..Len(spans)}
      keep == {n \in 1..Len(lines) : n \notin covered}
      nth(k) == CHOOSE n \in keep : Cardinality({m \in keep : m < n}) = k - 1
  IN  [k \in 1..Cardinality(keep) |-> lines[nth(k)]]

\* C2: Delete with an Exact target that occurs k >= 1 times removes exactly
\* the lines covered by the k occurrences and keeps every other line in order.
CexC2_DeleteRemovesCoveredLinesOnly ==
  DeleteExactDone => eOut.content = Join(UncoveredLines(eBuf, eSpans))

\* C3: findAll returns its spans in strictly ascending start offset without
\* overlap (endPos of a span is below startPos of the next), and each span's
\* start line is at most its end line and is the line holding its start offset.
ThmC3_SpansAscendingDisjoint ==
  ePhase = "found" =>
    /\ \A i \in 1..(Len(eSpans) - 1) :
         /\ eSpans[i].startPos < eSpans[i + 1].startPos
         /\ eSpans[i].endPos < eSpans[i + 1].startPos
    /\ \A i \in 1..Len(eSpans) :
         /\ eSpans[i].startLine <= eSpans[i].endLine
         /\ eSpans[i].startLine = LineOf(eBuf, eSpans[i].startPos)

\* an Exact search has returned two spans that start on different lines
WitC3_SeveralSpans ==
  /\ ePhase = "found" /\ Len(eSpans) = 2
  /\ eSpans[1].startLine < eSpans[2].startLine
  /\ eInstr.targetBlock.blockType = "exact"

BoundaryFound ==
  /\ ePhase = "found" /\ eInstr.targetBlock.blockType = "boundary"
  /\ eInstr.targetBlock.startPattern # <<>> /\ eInstr.targetBlock.endPattern # <<>>

\* C4: every Boundary span begins at the first start pattern at or after the
\* point where scanning resumed (the buffer's start, or just after the previous
\* span's end pattern) and ends with the first end pattern that begins at or
\* after the end of that start pattern; a start without a following end pattern
\* is not reported; a buffer holding exactly the pairs S E S E, in this order
\* and disjoint, gives exactly 2 spans, one per pair.
ThmC4_BoundaryNearestEnd ==
  BoundaryFound =>
    LET S == eInstr.targetBlock.startPattern
        E == eInstr.targetBlock.endPattern
        occS == Occurrences(eBuf, S)
        occE == Occurrences(eBuf, E)
        n == Len(eSpans)
        resume(k) == IF k = 1 THEN 0 ELSE eSpans[k - 1].endPos + 1
        startsFrom(c) == {i \in occS : i >= c}
        endsFrom(c) == {j \in occE : j >= c}
        s1 == Min(occS)
        s2 == Max(occS)
        e1 == Min(occE)
        e2 == Max(occE)
    IN  /\ \A k \in 1..n :
             /\ startsFrom(resume(k)) # {}
             /\ eSpans[k].startPos = Min(startsFrom(resume(k)))
             /\ endsFrom(eSpans[k].startPos + Len(S)) # {}
             /\ eSpans[k].endPos = Min(endsFrom(eSpans[k].startPos + Len(S))) + Len(E) - 1
        /\ \/ startsFrom(resume(n + 1)) = {}
           \/ endsFrom(Min(startsFrom(resume(n + 1))) + Len(S)) = {}
        /\ ( /\ Cardinality(occS) = 2 /\ Cardinality(occE) = 2
             /\ s1 + Len(S) <= e1 /\ e1 + Len(E) <= s2 /\ s2 + Len(S) <= e2 )
           => /\ n = 2
              /\ eSpans[1].startPos = s1 /\ eSpans[1].endPos = e1 + Len(E) - 1
              /\ eSpans[2].startPos = s2 /\ eSpans[2].endPos = e2 + Len(E) - 1

\* a buffer of the shape S E S E has been searched and gave 2 spans
WitC4_TwoPairs ==
  /\ BoundaryFound /\ Len(eSpans) = 2
  /\ Cardinality(Occurrences(eBuf, eInstr.targetBlock.startPattern)) = 2
  /\ Cardinality(Occurrences(eBuf, eInstr.targetBlock.endPattern)) = 2
  /\ eInstr.targetBlock.startPattern # eInstr.targetBlock.endPattern

\* ------------------------------------------- claims on the orchestrator
Ops == result.operations

\* the outcomes of (command, target) pairs
PairOps == {k \in DOMAIN Ops : Ops[k].cmd # 0 /\ Ops[k].target # "none"}

\* position of a target in the caller's list (0: no target)
TargetIndex(t) ==
  IF t = "none" THEN 0 ELSE CHOOSE k \in DOMAIN input.fileUris : input.fileUris[k] = t

\* what one successful evaluation of an instruction writes to a target that
\* holds raw
WrittenBy(instruction, raw, eol) ==
  LET data == ApplyEolPolicy(readFileWithInfo(File(raw, eol)), input.mixedEolPolicy).data
      out == applyInstruction(instruction, normalizeLineEndings(data.content))
  IN  FinalContent(out.content, data.info)

RECURSIVE Cumulative(_, _, _)
\* the initial content of target t after the successful commands among the
\* first k outcomes, applied in order
Cumulative(t, k, raw) ==
  IF k = 0 THEN raw
  ELSE LET before == Cumulative(t, k - 1, raw)
       IN  IF Ops[k].target = t /\ Ops[k].wrote = "ok"
           THEN WrittenBy(parsed[Ops[k].cmd].instruction, before, input.store0[t].eol)
           ELSE before

\* the text of the last completed write to t among the first n log entries
LastStored(t, n) ==
  LET S == {p \in 1..n : log[p].ev = "stored" /\ log[p].target = t}
  IN  IF S = {} THEN input.store0[t].raw
      ELSE log[CHOOSE p \in S : \A q \in S : q <= p].content

\* C5: in apply mode the store calls on one target follow command order, a
\* read is issued only when no earlier write on that target is outstanding,
\* and every read returns the target's initial content after the earlier
\* successful commands on it, applied in order
ThmC5_SameTargetSequentialCumulative ==
  input.mode = "apply" =>
    /\ \A p, q \in DOMAIN log :
         (p < q /\ log[p].target = log[q].target) =>
           /\ log[p].cmd <= log[q].cmd
           /\ (log[p].ev = "write" /\ log[q].ev = "read") =>
                \E r \in (p + 1)..(q - 1) :
                  /\ log[r].ev \in {"stored", "failed"}
                  /\ log[r].target = log[p].target
                  /\ log[r].cmd = log[p].cmd
    /\ \A k \in PairOps :
         Ops[k].readOk =>
           Ops[k].rawBefore = Cumulative(Ops[k].target, k - 1,
                                         input.store0[Ops[k].target].raw)
    /\ \A t \in DOMAIN store :
         store[t].raw = Cumulative(t, Len(Ops), input.store0[t].raw)

\* a later command read what an earlier command wrote to the same target
WitC5_SecondCommandSeesFirst ==
  /\ input.mode = "apply"
  /\ \E j, k \in PairOps :
       /\ j < k
       /\ Ops[j].target = Ops[k].target
       /\ Ops[j].wrote = "ok"
       /\ Ops[k].wrote = "ok"
       /\ Ops[k].rawBefore = Ops[j].rawAfter
       /\ Ops[k].rawBefore # input.store0[Ops[k].target].raw

\* the engine's verdict on an instruction for a target that holds raw
EngineOn(instruction, raw, eol) ==
  LET pol == ApplyEolPolicy(readFileWithInfo(File(raw, eol)), input.mixedEolPolicy)
  IN  IF pol.skip THEN "mixed"
      ELSE applyInstruction(instruction, normalizeLineEndings(pol.data.content)).status

\* C6: write is invoked only in apply mode and only for a pair on which the
\* engine succeeded; a preview run invokes no write and leaves every target
\* as it was; a pair that ends without a completed write (skipped, or failed
\* before or in the write) leaves the target's stored content as it read it
ThmC6_WriteOnlyOnApplySuccess ==
  /\ \A p \in DOMAIN log :
       log[p].ev \in {"write", "stored", "failed"} =>
         /\ input.mode = "apply"
         /\ parsed[log[p].cmd].ok
         /\ EngineOn(parsed[log[p].cmd].instruction, LastStored(log[p].target, p - 1),
                     input.store0[log[p].target].eol) = "ok"
  /\ input.mode = "preview" =>
       /\ store = input.store0
       /\ \A k \in DOMAIN Ops : Ops[k].wrote = "none"
  /\ \A t \in DOMAIN store : store[t].raw = LastStored(t, Len(log))
  /\ \A k \in DOMAIN Ops :
       /\ Ops[k].status # "SUCCESS" =>
            /\ Ops[k].rawAfter = Ops[k].rawBefore
            /\ ~\E p \in DOMAIN log :
                  /\ log[p].ev = "stored"
                  /\ log[p].target = Ops[k].target
                  /\ log[p].cmd = Ops[k].cmd
       /\ Ops[k].status \in {"SKIPPED", "WOULD_SKIP"} => Ops[k].wrote = "none"

\* an apply run in which one pair was skipped, one failed in the write and
\* one wrote
WitC6_SkipFailAndWrite ==
  /\ input.mode = "apply"
  /\ \E i, j, k \in PairOps :
       /\ Ops[i].status = "SKIPPED"
       /\ Ops[j].wrote = "failed"
       /\ Ops[k].wrote = "ok"
       /\ store[Ops[k].target].raw # input.store0[Ops[k].target].raw

\* the outcome class the rule gives a pair: "skip-mixed", "skip-notfound",
\* "success" or "error"
ClassOf(o) ==
  IF ~o.readOk THEN "error"
  ELSE LET verdict == EngineOn(parsed[o.cmd].instruction, o.rawBefore,
                               input.store0[o.target].eol)
       IN  IF verdict = "mixed" THEN "skip-mixed"
           ELSE IF verdict = "notfound" THEN "skip-notfound"
           ELSE IF verdict = "ok" /\ (input.mode = "preview" \/ o.wrote = "ok")
           THEN "success"
           ELSE "error"

\* C7: every pair outcome has the class the rule gives it, in the vocabulary
\* of the mode, and every outcome's status is a WOULD_* value exactly in a
\* preview run
ThmC7_ClassificationRule ==
  /\ \A k \in PairOps :
       LET o == Ops[k]
           class == ClassOf(o)
           preview == input.mode = "preview"
       IN  /\ class = "skip-mixed" =>
                /\ o.status = (IF preview THEN "WOULD_SKIP" ELSE "SKIPPED")
                /\ o.reasonCode = "MIXED_EOL"
           /\ class = "skip-notfound" =>
                /\ o.status = (IF preview THEN "WOULD_SKIP" ELSE "SKIPPED")
                /\ o.reasonCode = "NOT_FOUND"
           /\ class = "success" =>
                /\ o.status = (IF preview THEN "WOULD_SUCCESS" ELSE "SUCCESS")
                /\ o.reasonCode = "none"
           /\ class = "error" =>
                /\ o.status = (IF preview THEN "WOULD_ERROR" ELSE "ERROR")
                /\ o.reasonCode = "none"
  /\ \A k \in DOMAIN Ops :
       /\ (Ops[k].status \in {"WOULD_SUCCESS", "WOULD_SKIP", "WOULD_ERROR"})
            <=> (input.mode = "preview")
       /\ Ops[k].isPreview <=> (input.mode = "preview")

\* a run with a mixed-EOL skip, a zero-match skip, a success and an error
WitC7_AllClasses ==
  \E i, j, k, l \in PairOps :
    /\ Ops[i].reasonCode = "MIXED_EOL"
    /\ Ops[j].reasonCode = "NOT_FOUND"
    /\ Ops[k].status \in {"SUCCESS", "WOULD_SUCCESS"}
    /\ Ops[l].status \in {"ERROR", "WOULD_ERROR"}

\* the identity set the locator resolves for a pattern list
ResolvedSet(files) ==
  deduplicateUris(UNION {Matches(files[k]) : k \in DOMAIN files})

\* command i was parsed and target t is in its scope, or it has no scope
Applicable(i, t) ==
  /\ parse(input.commands[i]).ok
  /\ LET scope == parse(input.commands[i]).instruction.scope
     IN  scope.present => t \in ResolvedSet(scope.files)

\* the outcomes recorded for the pair (i, t)
OutcomesOf(i, t) == {k \in DOMAIN Ops : Ops[k].cmd = i /\ Ops[k].target = t}

PassesValidation(t) == ~input.validatePaths \/ InWorkspace(t)

\* the pairs the two loops have passed
Passed(i, k) ==
  \/ pc = "done" /\ ~cancelled
  \/ pc \in {"target", "cmd", "reading", "writing", "hung"}
     /\ (k < tIdx \/ (k = tIdx /\ pc # "target" /\ i < cIdx))

Before(p, q) ==
  \/ TargetIndex(Ops[p].target) < TargetIndex(Ops[q].target)
  \/ /\ TargetIndex(Ops[p].target) = TargetIndex(Ops[q].target)
     /\ Ops[p].cmd < Ops[q].cmd

\* C9: every command is parsed on its own; once the resolutions are done each
\* command that failed to parse has exactly one outcome, with no target; and
\* the outcome list is in the fixed order, whatever the order in which the
\* resolutions completed
ThmC9_OutcomeOrderFixed ==
  /\ \A p, q \in DOMAIN Ops : p < q => Before(p, q)
  /\ (pc \in {"target", "cmd", "reading", "writing", "done", "hung"}
      /\ NumCommands > 0 /\ Len(input.fileUris) > 0) =>
       \A i \in 1..NumCommands :
         /\ parsed[i].ok = parse(input.commands[i]).ok
         /\ ~parsed[i].ok =>
              /\ Cardinality(OutcomesOf(i, "none")) = 1
              /\ \A k \in DOMAIN Ops : Ops[k].cmd = i => Ops[k].target = "none"

\* a returned run over two targets whose second command's resolution
\* completed before the first's
WitC9_ResolutionsOutOfOrder ==
  /\ pc = "done"
  /\ settled = <<2, 1>>
  /\ \E j, k \in PairOps : Ops[j].target # Ops[k].target
  /\ \E j, k \in PairOps : Ops[j].target = Ops[k].target /\ Ops[j].cmd # Ops[k].cmd

\* a returned run with one command that failed to parse and one that was
\* evaluated
WitC9_ParseErrorOnce ==
  /\ pc = "done"
  /\ \E k \in DOMAIN Ops : Ops[k].target = "none"
  /\ PairOps # {}

\* C10 as stated, for commands that carry a scope: a pair has an outcome
\* only if its target is in the set resolved for the command's scope
CexC10_ScopedOnlyOnResolvedTargets ==
  \A k \in PairOps :
    LET scope == parse(input.commands[Ops[k].cmd]).instruction.scope
    IN  scope.present => Ops[k].target \in ResolvedSet(scope.files)

\* the same, for commands whose pattern list is not empty
ScopedNonEmptyOnlyOnResolvedTargets ==
  \A k \in PairOps :
    LET scope == parse(input.commands[Ops[k].cmd]).instruction.scope
    IN  (scope.present /\ Len(scope.files) > 0) => Ops[k].target \in ResolvedSet(scope.files)

\* C11: when the loop over the targets is at its head with the cancellation
\* signal set, the only step is the return, which records nothing, reads
\* nothing and writes nothing; at the return of a cancelled run no target at
\* or after the position reached has an outcome or a store call, and every
\* target holds its last completed write
ThmC11_CancelStopsTargetLoop ==
  /\ [](pc = "done" =>
          /\ \A t \in DOMAIN store : store[t].raw = LastStored(t, Len(log))
          /\ cancelled =>
               \A k \in DOMAIN input.fileUris :
                 k >= tIdx =>
                   /\ \A o \in DOMAIN Ops : Ops[o].target # input.fileUris[k]
                   /\ \A p \in DOMAIN log : log[p].target # input.fileUris[k])
  /\ [][(pc = "target" /\ cancelled) =>
          (pc' = "done" /\ result' = result /\ store' = store /\ log' = log)]_vars

\* a run cancelled at its second target, after a write to the first one
WitC11_CancelledAfterWrite ==
  /\ pc = "done"
  /\ cancelled
  /\ tIdx = 2
  /\ Len(input.fileUris) = 2
  /\ \E k \in PairOps : Ops[k].target = input.fileUris[1] /\ Ops[k].wrote = "ok"
  /\ store[input.fileUris[1]].raw # input.store0[input.fileUris[1]].raw

\* the number of outcomes of r with a status in S
NumWithStatus(r, S) ==
  Cardinality({k \in DOMAIN r.operations : r.operations[k].status \in S})

\* the counts of r are those of its outcomes
CountsDerived(r) ==
  /\ r.successful = NumWithStatus(r, {"SUCCESS", "WOULD_SUCCESS"})
  /\ r.skipped = NumWithStatus(r, {"SKIPPED", "WOULD_SKIP"})
  /\ r.errors = NumWithStatus(r, {"ERROR", "WOULD_ERROR"})
  /\ r.successful + r.skipped + r.errors = Len(r.operations)

\* C12: at the return of a multi-target run and of an in-memory apply the
\* counts successful, skipped and errors are the numbers of recorded outcomes
\* with the matching status, and their sum is the number of outcomes
CexC12_CountsFromOutcomes ==
  /\ pc = "done" => CountsDerived(result)
  /\ aPc = "done" => CountsDerived(aResult)

\* the same, for the multi-target run alone
MultiTargetCountsFromOutcomes == pc = "done" => CountsDerived(result)

\* the engine alone: BlockNotFoundError exactly on a searching operation
\* whose target has zero matches
EngineNotFoundExactlyOnZeroMatches ==
  ePhase = "done" =>
    /\ eOut.status = "notfound" <=>
         (/\ eInstr.operation \in {"replace", "delete"}
             \/ (eInstr.operation = "insert" /\ eInstr.insertPosition \in {"before", "after"})
          /\ eSpans = <<>>)
    /\ isEdgeInsertion(eInstr.insertPosition) => eOut.status = "ok"

\* C13: applyInstruction fails with BlockNotFoundError exactly when the
\* operation is Replace, Delete, Insert Before or Insert After and its target
\* has zero matches; Insert AtStart and Insert AtEnd are evaluated without a
\* search of the buffer for a target block, so whatever the buffer contains
\* they are never held up by a search and never reported as not found.
CexC13_NotFoundExactlyOnZeroMatches ==
  /\ EngineNotFoundExactlyOnZeroMatches
  /\ aPc = "hung" => ~isEdgeInsertion(parse(aCommands[aIdx]).instruction.insertPosition)
  /\ \A k \in DOMAIN aResult.operations :
       (k <= Len(aCommands) /\ k < aIdx /\ parse(aCommands[k]).ok
          /\ isEdgeInsertion(parse(aCommands[k]).instruction.insertPosition))
         => aResult.operations[k].status \in {"SUCCESS", "WOULD_SUCCESS"}

RECURSIVE Copies(_, _)
\* n copies of the lines, one after the other
Copies(lines, n) == IF n = 0 THEN <<>> ELSE lines \o Copies(lines, n - 1)

RECURSIVE ExpectedInsert(_, _, _, _, _)
\* single-pass builder over the lines: before line n one copy for each match
\* that starts on it (Before), after line n one copy for each match that ends
\* on it (After)
ExpectedInsert(lines, spans, n, position, replLines) ==
  IF n > Len(lines) THEN <<>>
  ELSE LET starting == Cardinality({i \in DOMAIN spans : spans[i].startLine = n})
           ending == Cardinality({i \in DOMAIN spans : spans[i].endLine = n})
       IN  (IF position = "before" THEN Copies(replLines, starting) ELSE <<>>)
             \o <<lines[n]>>
             \o (IF position = "after" THEN Copies(replLines, ending) ELSE <<>>)
             \o ExpectedInsert(lines, spans, n + 1, position, replLines)

InsertRelativeDone ==
  /\ ePhase = "done" /\ eInstr.operation = "insert" /\ eOut.status = "ok"
  /\ eInstr.insertPosition \in {"before", "after"}

\* C14: Insert Before / Insert After on a buffer with k >= 1 matches keeps
\* every original line in its order and puts, for each match, one copy of the
\* replacement's lines immediately before the match's start line (Before) or
\* immediately after its end line (After); the line count grows by k times
\* the number of replacement lines.
CexC14_InsertAtEachMatch ==
  InsertRelativeDone =>
    LET replLines == Split(eInstr.replacementBlock.content)
    IN  /\ \A i \in DOMAIN eSpans : eSpans[i].endLine <= Len(Split(eBuf))
        /\ eOut.content = Join(ExpectedInsert(Split(eBuf), eSpans, 1,
                                              eInstr.insertPosition, replLines))
        /\ Len(Split(eOut.content)) = Len(Split(eBuf)) + Len(eSpans) * Len(replLines)

\* the buffer after the same command is run once more on text (a run that
\* finds no match leaves the buffer as it is)
RunAgain(instruction, text) ==
  LET again == applyInstruction(instruction, text)
  IN  IF again.status = "ok" THEN again.content ELSE text

\* the characters of a text
CharsOf(text) == {text[i] : i \in DOMAIN text}

\* C15 as stated: a Replace whose replacement content holds no match of the
\* target gives, run twice in sequence, the buffer it gives run once
CexC15_ReplaceIdempotentWithoutTarget ==
  (ReplaceDone /\ findAllBlocks(eInstr.replacementBlock.content, eInstr.targetBlock) = <<>>)
    => RunAgain(eInstr, eOut.content) = eOut.content

\* C15: a Replace with an Exact target and a non-empty replacement that has
\* no character in common with the target gives, run twice in sequence, the
\* buffer it gives run once
ThmC15_ReplaceIdempotentDisjoint ==
  (/\ ReplaceDone
   /\ eInstr.targetBlock.blockType = "exact"
   /\ eInstr.replacementBlock.content # <<>>
   /\ CharsOf(eInstr.replacementBlock.content) \cap CharsOf(eInstr.targetBlock.content) = {})
    => RunAgain(eInstr, eOut.content) = eOut.content

\* a Replace of two matches by a longer replacement without a character of
\* the target
WitC15_TwoMatchesReplaced ==
  /\ ReplaceDone
  /\ eInstr.targetBlock.blockType = "exact"
  /\ Len(eInstr.replacementBlock.content) > Len(eInstr.targetBlock.content)
  /\ CharsOf(eInstr.replacementBlock.content) \cap CharsOf(eInstr.targetBlock.content) = {}
  /\ Len(eSpans) = 2
  /\ eOut.content # eBuf

\* ------------------------------------------------ claims on the parser
\* the command text without the blank lines at its two ends
Lines == TrimText(pText)

\* number of blank lines in front of the operation line
LeadBlank == Len(pText) - Len(DropBlankStart(pText))

\* the command names an operation that has a target block, which opens on
\* the line after the operation line
HasTargetBlock ==
  /\ pPhase \in {"returned", "thrown"}
  /\ Len(Lines) >= 2
  /\ Lines[1] \in {OpLine("replace block"), OpLine("delete block"), OpLine("insert before")}
  /\ Lines[2].kind = "begin"

\* positions of the END lines that carry the id of the BEGIN line at position b
Closers(b) == {k \in (b + 1)..Len(Lines) : Lines[k] = EndLine(Lines[b].arg)}

\* the body of the block that opens at position b: the lines up to its first END
Body(b) == SubSeq(Lines, b + 1, Min(Closers(b)) - 1)

\* the text of a sequence of lines
TextOf(lines) == Join([i \in DOMAIN lines |-> Render(lines[i])])

\* position of the `with` line of a command that was accepted
WithAt ==
  IF Lines[1] = OpLine("insert at end") THEN 2 ELSE Min(Closers(2)) + 1

\* C16: parse returns an Instruction only for a text that satisfies the
\* Instruction invariants: a Replace or an Insert has a replacement block, an
\* Insert has a position, and a Delete has no replacement block and its text
\* carries no `with` block after the target block.
CexC16_RejectsDeleteWithReplacement ==
  pPhase = "returned" =>
    /\ pOut.instruction.operation \in {"replace", "insert"}
         => pOut.instruction.replacementBlock.blockType # "none"
    /\ pOut.instruction.operation = "insert" => pOut.instruction.insertPosition # "none"
    /\ pOut.instruction.operation = "delete" =>
         /\ pOut.instruction.replacementBlock = NoBlock
         /\ \A k \in DOMAIN Lines :
              (Closers(2) # {} /\ k = Min(Closers(2)) + 1) => Lines[k].kind # "with"

\* C17: a target block opened by BEGIN with an id of word characters and
\* hyphens (or without id) and closed by the END line with the identical id
\* is read as a block whose body is the lines up to that END (END lines with
\* another id included), and is not rejected as malformed or unclosed; a block
\* without its END is rejected.
CexC17_BlockClosedByMatchingEnd ==
  HasTargetBlock =>
    IF Closers(2) = {} THEN pPhase = "thrown"
    ELSE /\ ~(pPhase = "thrown" /\ pOut.error \in {"invalid_begin", "unclosed"}
              /\ pOut.line \in {1, 2})
         /\ pPhase = "returned" => pOut.instruction.targetBlock = BlockOf(TextOf(Body(2)))

\* C18: every ParseError carries a 1-based line number: at least 1; for an
\* operation line that is not recognized, the position of that line in the
\* command text; for a malformed or unclosed BEGIN marker, the position of a
\* BEGIN line.
CexC18_ParseErrorLineOneBased ==
  pPhase = "thrown" =>
    /\ pOut.line >= 1
    /\ pOut.error \in {"unknown_operation", "invalid_insert_position"}
         => pOut.line = LeadBlank + 1
    /\ pOut.error \in {"invalid_begin", "unclosed"}
         => pOut.line - LeadBlank \in DOMAIN Lines
            /\ Lines[pOut.line - LeadBlank].kind = "begin"

\* C19: a target body that holds a line consisting of the marker is parsed as
\* a Boundary block whose start pattern is the body text before a marker line
\* and whose end pattern is the body text after it, never as an Exact block.
CexC19_MarkerBodyIsBoundary ==
  (/\ HasTargetBlock
   /\ pPhase = "returned"
   /\ \E m \in DOMAIN Body(2) : Body(2)[m] = ToLine)
    => /\ pOut.instruction.targetBlock.blockType = "boundary"
       /\ \E m \in DOMAIN Body(2) :
            /\ Body(2)[m] = ToLine
            /\ pOut.instruction.targetBlock.startPattern = TextOf(SubSeq(Body(2), 1, m - 1))
            /\ pOut.instruction.targetBlock.endPattern
                 = TextOf(SubSeq(Body(2), m + 1, Len(Body(2))))

\* C20: in every Instruction parse returns for a Replace or an Insert, the
\* replacement block is the Exact block whose content is the body text of the
\* `with` block, also when that body holds a marker line.
CexC20_ReplacementIsLiteralBody ==
  (pPhase = "returned" /\ pOut.instruction.operation \in {"replace", "insert"})
    => /\ Lines[WithAt].kind = "with"
       /\ Closers(WithAt + 1) # {}
       /\ pOut.instruction.replacementBlock = ExactBlock(TextOf(Body(WithAt + 1)))

\* a full-line comment: the line begins with two slashes
IsComment(line) ==
  line.kind = "text" /\ Len(line.arg) >= 2 /\ line.arg[1] = "/" /\ line.arg[2] = "/"

RECURSIVE StripOutsideComments(_, _, _, _)
\* the text without its comment lines outside the blocks; a block runs from a
\* BEGIN line to the first END line with its id
StripOutsideComments(text, i, inside, id) ==
  IF i > Len(text) THEN <<>>
  ELSE IF inside
  THEN <<text[i]>> \o StripOutsideComments(text, i + 1, text[i] # EndLine(id), id)
  ELSE IF text[i].kind = "begin"
  THEN <<text[i]>> \o StripOutsideComments(text, i + 1, TRUE, text[i].arg)
  ELSE IF IsComment(text[i]) THEN StripOutsideComments(text, i + 1, FALSE, id)
  ELSE <<text[i]>> \o StripOutsideComments(text, i + 1, FALSE, id)

\* C21: a command with full-line comments outside its blocks gives the
\* Instruction that the command without them gives; comment lines inside a
\* block are part of the block's content.
CexC21_OutsideCommentsIgnored ==
  (pPhase \in {"returned", "thrown"}
     /\ parseText(StripOutsideComments(pText, 1, FALSE, <<>>)).ok)
    => /\ pPhase = "returned"
       /\ pOut.instruction
            = parseText(StripOutsideComments(pText, 1, FALSE, <<>>)).instruction

\* the part of C21 about the comments inside a block
InsideCommentsKept ==
  (HasTargetBlock /\ pPhase = "returned") =>
    pOut.instruction.targetBlock = BlockOf(TextOf(Body(2)))

\* C22: every outcome of a batch run has no reason code, NOT_FOUND or
\* MIXED_EOL.
CexC22_OnlyNotFoundAndMixedEol ==
  \A k \in DOMAIN Ops : Ops[k].reasonCode \in {"none", "NOT_FOUND", "MIXED_EOL"}

\* positions in the caller's list of the target outside the workspace
OutsidePositions == {k \in DOMAIN input.fileUris : input.fileUris[k] = OutsideFile}

\* C23: with path validation on, no read and no write is ever issued for a
\* target outside the workspace and its content stays as it was; once the
\* loop has passed such a target the run holds exactly one outcome for it, an
\* error; and the step taken at such a target records that outcome and moves
\* to the next target without a store call.
ThmC23_OutsideTargetNeverTouched ==
  /\ [](input.validatePaths =>
          /\ \A p \in DOMAIN log : log[p].target # OutsideFile
          /\ store[OutsideFile] = input.store0[OutsideFile]
          /\ \A k \in OutsidePositions :
               k < tIdx =>
                 /\ Cardinality({o \in DOMAIN Ops : Ops[o].target = OutsideFile}) = 1
                 /\ \A o \in DOMAIN Ops :
                      Ops[o].target = OutsideFile =>
                        Ops[o].status = StatusIn(input.mode, "error"))
  /\ [][(/\ pc = "target" /\ ~cancelled /\ cancelled' = cancelled
         /\ input.validatePaths /\ tIdx \in OutsidePositions)
          => (/\ pc' = "target" /\ tIdx' = tIdx + 1
              /\ log' = log /\ store' = store
              /\ Len(result'.operations) = Len(result.operations) + 1)]_vars

\* a run in apply mode with validation on has returned: the target outside
\* the workspace, first in the list, has its error outcome and the target
\* after it was written
WitC23_OutsideThenWritten ==
  /\ pc = "done" /\ ~cancelled
  /\ input.validatePaths /\ input.mode = "apply"
  /\ Len(input.fileUris) = 2 /\ input.fileUris[1] = OutsideFile
  /\ \E o \in DOMAIN Ops : Ops[o].target = OutsideFile /\ Ops[o].status = "ERROR"
  /\ \E o \in PairOps : Ops[o].target = input.fileUris[2] /\ Ops[o].wrote = "ok"

\* C26: every batch run of the in-memory apply terminates and returns its
\* BatchResult, for every list of commands and every buffer: no run enters a
\* findAll that does not return (an Exact target whose content is the empty
\* string, as the placeholder target of insert at start / insert at end is).
CexC26_EveryBatchRunTerminates ==
  /\ aPc # "hung"
  /\ (aPc = "loop" /\ aIdx <= Len(aCommands) /\ parse(aCommands[aIdx]).ok)
       => ~ExactDiverges(parse(aCommands[aIdx]).instruction.targetBlock)

\* ------------------------------------------- the pre-execution analysis
\* an ID is the number its four digits spell ('0000' is 0)

\* _createConfirmMessage line 326: the ID given to the outcome at the 0-based
\* position index: blockIds[index] ?? index.toString().padStart(4, '0')
ConfirmId(blockIds, index) ==
  IF index + 1 <= Len(blockIds) THEN blockIds[index + 1] ELSE index

RECURSIVE IdsWithStatus(_, _, _, _)
IdsWithStatus(operations, blockIds, status, index) ==
  IF index >= Len(operations) THEN <<>>
  ELSE (IF operations[index + 1].status = status
        THEN <<ConfirmId(blockIds, index)>> ELSE <<>>)
       \o IdsWithStatus(operations, blockIds, status, index + 1)

\* _createConfirmMessage lines 324-341: the IDs the message lists as skipped
\* and as having errors
createConfirmMessage(res, blockIds) ==
  [skippedIds |-> IdsWithStatus(res.operations, blockIds, "WOULD_SKIP", 0),
   errorIds |-> IdsWithStatus(res.operations, blockIds, "WOULD_ERROR", 0)]

\* _previewAndApply lines 195-197 on a text without explicit IDs: the k-th
\* command block carries the ID of the separator before it, 0000 for the first
SequentialIds(commands) == [k \in 1..Len(commands) |-> k - 1]

RECURSIVE CommandIdsWithStatus(_, _, _, _)
CommandIdsWithStatus(operations, blockIds, status, index) ==
  IF index >= Len(operations) THEN <<>>
  ELSE (IF operations[index + 1].status = status
        THEN <<blockIds[operations[index + 1].cmd]>> ELSE <<>>)
       \o CommandIdsWithStatus(operations, blockIds, status, index + 1)

\* C30: in the analysis message of a preview that returned, every skipped or
\* errored outcome of a command is listed under the ID of the command that
\* produced it, whatever the number of targets and of commands that fail to
\* parse.
CexC30_OutcomeLabelledWithItsCommand ==
  (/\ pc = "done" /\ ~cancelled /\ input.mode = "preview"
   /\ \A k \in DOMAIN Ops : Ops[k].cmd # 0)
    => LET ids == SequentialIds(input.commands)
           message == createConfirmMessage(result, ids)
       IN  /\ message.skippedIds
                = CommandIdsWithStatus(Ops, ids, "WOULD_SKIP", 0)
           /\ message.errorIds
                = CommandIdsWithStatus(Ops, ids, "WOULD_ERROR", 0)

\* ------------------------------------------- claims on the write-back
\* the text ends with a line terminator
EndsWithTerminator(text) == EndsWith(text, <<NL>>) \/ EndsWith(text, <<CR>>)

\* every line break of the text is the one of the convention
UsesConvention(text, eol) ==
  \A i \in 1..Len(text) :
    /\ text[i] = CR => (eol = "CRLF" /\ i < Len(text) /\ text[i + 1] = NL)
    /\ text[i] = NL => (eol = "CRLF" <=> (i > 1 /\ text[i - 1] = CR))

\* C25: after a successful write the stored content uses the line-ending
\* convention of the target's metadata throughout, and it ends with a line
\* terminator if and only if the content that was read ended with one,
\* whatever the mutation result (ending with no, one or several line breaks).
CexC25_WriteRestoresFormat ==
  wPhase = "written"
    => /\ UsesConvention(wStored, wInfo.lineEnding)
       /\ EndsWithTerminator(wStored) <=> EndsWithTerminator(wFile.raw)

\* the convention half of the statement, which holds for every result tried
WrittenUsesConvention ==
  wPhase = "written" => UsesConvention(wStored, wInfo.lineEnding)

\* the trailing-terminator half holds for the results that end with at most
\* one line break
WrittenKeepsTrailingState ==
  (wPhase = "written" /\ ~EndsWith(wContent, <<NL, NL>>))
    => (EndsWithTerminator(wStored) <=> EndsWithTerminator(wFile.raw))

\* ------------------------------------------- claims on the panel
\* C24: in every run of the panel the apply pass starts, and a write is
\* issued, only after the preview pass of that run has completed and the
\* analysis dialog of that run was answered with Apply; a run whose dialog
\* was cancelled or dismissed has ended and has issued no write.
ThmC24_WriteOnlyAfterPreviewAndApply ==
  \A r \in DOMAIN hRuns :
    /\ (hRuns[r].pc = "apply" \/ hRuns[r].writes > 0)
         => (hRuns[r].previewed /\ hRuns[r].answer = "Apply")
    /\ hRuns[r].pc \in {"extract", "preview", "dialog", "hung"}
         => (hRuns[r].writes = 0 /\ hRuns[r].answer = "none")
    /\ hRuns[r].answer \in {"Cancel", "dismissed"}
         => (hRuns[r].pc = "done" /\ hRuns[r].writes = 0)

\* one run was applied and wrote, another one was cancelled at its dialog
WitC24_OneAppliedOneCancelled ==
  \E r1, r2 \in DOMAIN hRuns :
    /\ hRuns[r1].pc = "done" /\ hRuns[r1].answer = "Apply" /\ hRuns[r1].writes > 0
    /\ hRuns[r2].pc = "done" /\ hRuns[r2].answer = "Cancel" /\ hRuns[r2].previewed

\* C27: from the moment the webview posts executeCommands until the host has
\* posted processing:end for that request, the webview posts no second
\* executeCommands: at most one request is in progress.
CexC27_NoSecondExecuteWhileRunning ==
  Cardinality({r \in 1..vPosted : InProgress(r)}) <= 1

\* C28: the busy state of a request in progress is never cleared by a
\* message that belongs to another request.
CexC28_BusyClearedByOwnRunOnly ==
  \A c \in vClears : c.by = c.during

\* ------------------------------------------- claims on the splitter
RECURSIVE ClosedBlocksFrom(_, _)
\* the closed blocks of a text from line i on, as <<first, last>> line
\* numbers: a BEGIN line outside a block and the first END line after it that
\* carries its ID
ClosedBlocksFrom(text, i) ==
  IF i > Len(text) THEN {}
  ELSE LET beginMatch == DSL_BEGIN_RE(Trim(Render(text[i])))
           ends == {j \in (i + 1)..Len(text) :
                      Trim(Render(text[j])) = PanelEndMarker(beginMatch.id)}
       IN  IF ~beginMatch.matched THEN ClosedBlocksFrom(text, i + 1)
           ELSE IF ends = {} THEN {}
           ELSE LET last == CHOOSE j \in ends : \A k \in ends : j <= k
                IN  {<<i, last>>} \cup ClosedBlocksFrom(text, last + 1)

\* the lines first..last of the text are, unchanged and in one piece, lines
\* of the command
HoldsVerbatim(command, text, first, last) ==
  \E at \in 0..(Len(command) - (last - first + 1)) :
    \A j \in first..last : Render(command[at + j - first + 1]) = Render(text[j])

\* C29: after ID tagging and splitting, every closed block of the submitted
\* text (from its BEGIN line to its matching END line) is, line for line and
\* unaltered, part of one of the commands handed to the parser, also when its
\* body holds a line ---NEXT_BLOCK--- or ---NEXT_BLOCK:ID---.
CexC29_BlockBodiesReachParserVerbatim ==
  Len(hRuns) = 1
    => \A b \in ClosedBlocksFrom(vInput, 1) :
         \E k \in DOMAIN hRuns[1].commands :
           HoldsVerbatim(hRuns[1].commands[k], vInput, b[1], b[2])

\* the splitting alone keeps every closed block in one piece: the blocks of
\* the tagged text are all found in the commands
SplitKeepsTaggedBlocks ==
  Len(hRuns) = 1
    => LET tagged == addIdsToCommands(vInput)
       IN  \A b \in ClosedBlocksFrom(tagged, 1) :
             \E k \in DOMAIN hRuns[1].commands :
               HoldsVerbatim(hRuns[1].commands[k], tagged, b[1], b[2])

=============================================================================
